---- MODULE Spec2Model ----
(***************************************************************************)
(* Narrative progression engine: fate system (fate_system.py), event       *)
(* manager (event_manager.py), battle system (battle_system.py) and event  *)
(* result handler (event_result_handler.py), all operating on one shared   *)
(* mutable player record, and the queue of the text log (text_log.py)      *)
(* whose on_show callbacks change the player's inventory.                  *)
(***************************************************************************)
EXTENDS Integers, Sequences, FiniteSets, TLC

VARIABLES
    player,     \* the player dict (player_state.init_player_state)
    call,       \* the last operation executed: its inputs, pre-state and return value
    fate_log,   \* history variable: fate after every apply_fate_change whose limited delta is non-zero
    selection,  \* history variable: what get_random_event returned so far
                \*   log[id] = [ago |-> calls made since id was last returned, times |-> times returned]
                \*   band_calls = latest consecutive calls made with fate in the midband
                \*   band_reached = those of them that reached the midband step
    n_calls,    \* number of operations executed so far (bounds the exploration)
    text_log,   \* the queue state of module text_log
    refusals,   \* history variable: handle_refusal calls made since the last reset_refusal
    save_file,  \* data/save.json: <<>> when there is none, else <<the stored payload>>
    game        \* the globals of the main loop (main.py): sub_state, current_event, the
                \*   pending clear of the event, the intro cinematic; crashed tells that
                \*   an exception ended the program; history fields: entry_steps = steps
                \*   when the current event was entered, saved = the last frame's save
                \*   holds everything done since

vars == <<player, call, fate_log, selection, n_calls, text_log, refusals, save_file, game>>

\* ------------------------------------------------------------------------
\* Bounds of the exploration
\* ------------------------------------------------------------------------
MaxCalls == 4
MaxChanges == 12
MaxSteps == 13

\* ------------------------------------------------------------------------
\* fate_system.py : constants
\* ------------------------------------------------------------------------
FATE_MIN == 0
FATE_MAX == 100
HIGH_THRESHOLD == 67
LOW_THRESHOLD == 33
MAX_NORMAL_DELTA == 10
MAX_MAJOR_DELTA == 20
MAX_BIAS_DELTA == 5
HISTORY_CAP == 10

Kinds == {"normal", "major", "bias"}
None == "None"

CHAPTER_THRESHOLDS == <<0, 3, 6, 9, 12>>   \* index = chapter (2..5), value = steps

LOCK_EVENTS == [high |-> "fate_lock_high", mid |-> "fate_lock_mid", low |-> "fate_lock_low"]
ENDING_EVENTS == [high |-> "fate_ending_high", mid |-> "fate_ending_mid", low |-> "fate_ending_low"]

max(a, b) == IF a >= b THEN a ELSE b
min(a, b) == IF a <= b THEN a ELSE b

\* F(v), with v evaluated once however often F uses its argument
bind(v, F(_)) == CHOOSE r \in {F(x) : x \in {v}} : TRUE

RECURSIVE sum(_)
sum(s) == IF s = <<>> THEN 0 ELSE Head(s) + sum(Tail(s))

\* ------------------------------------------------------------------------
\* player_state.py
\* ------------------------------------------------------------------------
init_player_state ==
    [ hp |-> 20,
      fate |-> 50,
      fate_history |-> <<>>,
      fate_path_locked |-> FALSE,
      fate_locked_band |-> None,
      steps |-> 0,
      chapter |-> 1,
      ending_prepared |-> FALSE,
      _fate_changed_in_event |-> FALSE,
      inventory |-> <<>>,
      flags |-> {},
      forced_event |-> None,
      midband_counter |-> 0,
      event_cooldowns |-> [id \in {} |-> 0],
      consumed_events |-> {},
      refusal_streak |-> 0,
      ending_active |-> FALSE,
      battle_state |-> [present |-> FALSE] ]

\* ------------------------------------------------------------------------
\* fate_system.py : functions
\* ------------------------------------------------------------------------
clamp_mutant_no_upper(value, minimum, maximum) == max(minimum, value)
clamp(value, minimum, maximum) == max(minimum, min(maximum, value))

determine_band(value) ==
    IF value >= HIGH_THRESHOLD THEN "high"
    ELSE IF value <= LOW_THRESHOLD THEN "low"
    ELSE "mid"

kind_limit(kind) ==
    CASE kind = "normal" -> MAX_NORMAL_DELTA
      [] kind = "major"  -> MAX_MAJOR_DELTA
      [] kind = "bias"   -> MAX_BIAS_DELTA
      [] OTHER           -> MAX_NORMAL_DELTA

_limit_delta_mutant_unlimited(delta, kind) == delta
_limit_delta(delta, kind) == max(-kind_limit(kind), min(kind_limit(kind), delta))

push_history_mutant_drop_newest(history, value) ==
    IF Len(history) + 1 > HISTORY_CAP THEN history ELSE Append(history, value)
push_history(history, value) ==
    IF Len(history) + 1 > HISTORY_CAP THEN Tail(Append(history, value))
    ELSE Append(history, value)

apply_fate_change(p, value, kind) ==
    LET limited_delta == _limit_delta(value, kind)
        new_value == clamp(p.fate + limited_delta, FATE_MIN, FATE_MAX)
    IN  IF limited_delta = 0 THEN p
        ELSE [p EXCEPT !.fate = new_value,
                       !.fate_history = push_history(@, new_value),
                       !._fate_changed_in_event = TRUE]

band_target(band) ==
    CASE band = "high" -> 75
      [] band = "mid"  -> 50
      [] band = "low"  -> 25

nudge_toward_band(p, target_band) ==
    LET d0 == band_target(target_band) - p.fate
        delta == IF d0 > 0 THEN min(d0, MAX_BIAS_DELTA) ELSE max(d0, -MAX_BIAS_DELTA)
    IN  IF delta = 0 THEN p ELSE apply_fate_change(p, delta, "bias")

advance_chapter_if_needed_mutant_next_chapter(p) ==
    LET reached == {c \in 2..5 : p.steps >= CHAPTER_THRESHOLDS[c] /\ c > p.chapter}
        new_chapter == IF reached = {} THEN p.chapter
                       ELSE CHOOSE c \in reached : \A d \in reached : d >= c
    IN  [p EXCEPT !.chapter = new_chapter]
advance_chapter_if_needed(p) ==
    LET reached == {c \in 2..5 : p.steps >= CHAPTER_THRESHOLDS[c] /\ c > p.chapter}
        new_chapter == IF reached = {} THEN p.chapter
                       ELSE CHOOSE c \in reached : \A d \in reached : d <= c
    IN  [p EXCEPT !.chapter = new_chapter]

apply_chapter_bias_mutant_nudges_mid(p) ==
    IF p._fate_changed_in_event THEN p
    ELSE LET history == p.fate_history
         IN  IF p.chapter = 2 THEN nudge_toward_band(p, "mid")
             ELSE IF p.chapter = 3 THEN
                 IF history # <<>> THEN
                     IF sum(history) >= 55 * Len(history) THEN nudge_toward_band(p, "high")
                     ELSE IF sum(history) <= 45 * Len(history) THEN nudge_toward_band(p, "low")
                     ELSE nudge_toward_band(p, "mid")
                 ELSE p
             ELSE p
apply_chapter_bias_mutant_latest_entry(p) ==
    IF p._fate_changed_in_event THEN p
    ELSE LET current_band == determine_band(p.fate)
             history == p.fate_history
         IN  IF p.chapter = 2 THEN
                 IF current_band = "high" THEN nudge_toward_band(p, "mid")
                 ELSE IF current_band = "low" THEN nudge_toward_band(p, "mid")
                 ELSE p
             ELSE IF p.chapter = 3 THEN
                 IF history # <<>> THEN
                     IF history[Len(history)] >= 55 THEN nudge_toward_band(p, "high")
                     ELSE IF history[Len(history)] <= 45 THEN nudge_toward_band(p, "low")
                     ELSE nudge_toward_band(p, "mid")
                 ELSE p
             ELSE p
apply_chapter_bias(p) ==
    IF p._fate_changed_in_event THEN p
    ELSE LET current_band == determine_band(p.fate)
             history == p.fate_history
         IN  IF p.chapter = 2 THEN
                 IF current_band = "high" THEN nudge_toward_band(p, "mid")
                 ELSE IF current_band = "low" THEN nudge_toward_band(p, "mid")
                 ELSE p
             ELSE IF p.chapter = 3 THEN
                 IF history # <<>> THEN
                     \* avg = sum/len ; avg >= 55 <=> sum >= 55*len
                     IF sum(history) >= 55 * Len(history) THEN nudge_toward_band(p, "high")
                     ELSE IF sum(history) <= 45 * Len(history) THEN nudge_toward_band(p, "low")
                     ELSE nudge_toward_band(p, "mid")
                 ELSE p
             ELSE p

\* Functions that also return a value give [p |-> player after, ret |-> value].
maybe_lock_main_path_mutant_relock(p) ==
    IF p.chapter < 4 THEN [p |-> p, ret |-> None]
    ELSE LET band == determine_band(p.fate)
         IN  [p |-> [p EXCEPT !.fate_path_locked = TRUE, !.fate_locked_band = band],
              ret |-> LOCK_EVENTS[band]]
maybe_lock_main_path(p) ==
    IF p.chapter < 4 THEN [p |-> p, ret |-> None]
    ELSE IF p.fate_path_locked THEN [p |-> p, ret |-> None]
    ELSE LET band == determine_band(p.fate)
         IN  [p |-> [p EXCEPT !.fate_path_locked = TRUE, !.fate_locked_band = band],
              ret |-> LOCK_EVENTS[band]]

maybe_prepare_ending_mutant_live_band(p) ==
    IF p.chapter < 5 THEN [p |-> p, ret |-> None]
    ELSE IF p.ending_prepared THEN [p |-> p, ret |-> None]
    ELSE [p |-> [p EXCEPT !.ending_prepared = TRUE],
          ret |-> ENDING_EVENTS[determine_band(p.fate)]]
maybe_prepare_ending(p) ==
    IF p.chapter < 5 THEN [p |-> p, ret |-> None]
    ELSE IF p.ending_prepared THEN [p |-> p, ret |-> None]
    ELSE LET band == IF p.fate_locked_band # None THEN p.fate_locked_band
                     ELSE determine_band(p.fate)
         IN  [p |-> [p EXCEPT !.ending_prepared = TRUE], ret |-> ENDING_EVENTS[band]]

post_event_update_mutant_lock_keeps_marker(p) ==
    LET p1 == [p EXCEPT !.steps = @ + 1]
        p2 == advance_chapter_if_needed(p1)
        p3 == apply_chapter_bias(p2)
        lock == maybe_lock_main_path(p3)
        ending == maybe_prepare_ending(lock.p)
    IN  IF lock.ret # None
        THEN [p |-> lock.p, ret |-> lock.ret]
        ELSE [p |-> [ending.p EXCEPT !._fate_changed_in_event = FALSE], ret |-> ending.ret]
post_event_update_mutant_no_short_circuit(p) ==
    LET p1 == [p EXCEPT !.steps = @ + 1]
        p2 == advance_chapter_if_needed(p1)
        p3 == apply_chapter_bias(p2)
        lock == maybe_lock_main_path(p3)
        ending == maybe_prepare_ending(lock.p)
    IN  [p |-> [ending.p EXCEPT !._fate_changed_in_event = FALSE],
         ret |-> IF ending.ret # None THEN ending.ret ELSE lock.ret]
post_event_update(p) ==
    LET p1 == [p EXCEPT !.steps = @ + 1]
        p2 == advance_chapter_if_needed(p1)
        p3 == apply_chapter_bias(p2)
        lock == maybe_lock_main_path(p3)
        ending == maybe_prepare_ending(lock.p)
    IN  IF lock.ret # None
        THEN [p |-> [lock.p EXCEPT !._fate_changed_in_event = FALSE], ret |-> lock.ret]
        ELSE [p |-> [ending.p EXCEPT !._fate_changed_in_event = FALSE], ret |-> ending.ret]

SELF_DOUBT_EVENT_ID == "fate_trigger_self_doubt"

handle_refusal_mutant_never_resets(p) ==
    LET streak == p.refusal_streak + 1
    IN  IF streak >= 2
        THEN [p |-> [p EXCEPT !.refusal_streak = streak], ret |-> SELF_DOUBT_EVENT_ID]
        ELSE [p |-> [p EXCEPT !.refusal_streak = streak], ret |-> None]
handle_refusal(p) ==
    LET streak == p.refusal_streak + 1
    IN  IF streak >= 2
        THEN [p |-> [p EXCEPT !.refusal_streak = 0], ret |-> SELF_DOUBT_EVENT_ID]
        ELSE [p |-> [p EXCEPT !.refusal_streak = streak], ret |-> None]

reset_refusal(p) == [p EXCEPT !.refusal_streak = 0]

apply_major_choice(p, delta) == apply_fate_change(p, delta, "major")
apply_normal_choice(p, delta) == apply_fate_change(p, delta, "normal")

\* ------------------------------------------------------------------------
\* battle_system.py
\* Probabilities are in hundredths: 0.6 is 60, random.random() in [0,1) is a
\* draw in 0..99, and "random.random() < chance" is "draw < chance".
\* ------------------------------------------------------------------------
DEFAULT_ATTACK_CHANCE == 60
DEFAULT_ESCAPE_CHANCE == 50
DEFAULT_DURABILITY == 3
DEFAULT_MAX_TURNS == 3
ESCAPE_INCREMENT == 15

NoBattleState == [present |-> FALSE]

\* dict.get(key, default)
get(d, key, default) == IF key \in DOMAIN d THEN d[key] ELSE default

EnemyState_from_dict(data) ==
    [ name |-> get(data, "name", "unknown"),
      max_hp |-> get(data, "hp", 1),
      hp |-> get(data, "hp", 1),
      atk |-> get(data, "atk", 0),
      defense |-> get(data, "def", 0) ]

\* battle_durability of the event; a non-positive override reverts to the default
event_durability_mutant_no_revert(event) == get(event, "battle_durability", DEFAULT_DURABILITY)
event_durability(event) ==
    LET durability == get(event, "battle_durability", DEFAULT_DURABILITY)
    IN  IF durability > 0 THEN durability ELSE DEFAULT_DURABILITY

event_max_turns(event) ==
    LET max_turns == get(event, "battle_max_turns", DEFAULT_MAX_TURNS)
    IN  IF max_turns > 0 THEN max_turns ELSE DEFAULT_MAX_TURNS

start_battle(p, event) ==
    LET enemy_data == IF "enemy" \in DOMAIN event THEN event.enemy
                      ELSE [ name |-> get(event, "enemy_name", "unknown"),
                             hp |-> get(event, "enemy_hp", 1),
                             atk |-> get(event, "enemy_atk", 0),
                             def |-> get(event, "enemy_def", 0) ]
        durability == event_durability(event)
        max_turns == event_max_turns(event)
    IN  [p EXCEPT !.battle_state =
            [ present |-> TRUE,
              event_id |-> event.id,
              enemy |-> EnemyState_from_dict(enemy_data),
              active |-> TRUE,
              escaped |-> FALSE,
              victory |-> FALSE,
              defeat |-> FALSE,
              turn_count |-> 0,
              attack_attempts |-> 0,
              escape_attempts |-> 0,
              max_turns |-> max_turns,
              durability |-> durability,
              max_durability |-> durability ]]

clear_battle_state(p) == [p EXCEPT !.battle_state = NoBattleState]

is_battle_active_mutant_ignores_active(p) == p.battle_state.present
is_battle_active(p) == p.battle_state.present /\ p.battle_state.active

\* The success test of an attack: forced on the last allowed attempt.
attack_success_mutant_never_forced(attempt, max_turns, chance, draw) == draw < chance
attack_success(attempt, max_turns, chance, draw) == attempt >= max_turns \/ draw < chance

\* The chance of an escape: forced to 1.0 on the last allowed attempt.
escape_chance_mutant_never_forced(attempt, max_turns, base_chance) ==
    min(100, base_chance + max(0, ESCAPE_INCREMENT * (attempt - 1)))
escape_chance(attempt, max_turns, base_chance) ==
    IF attempt >= max_turns THEN 100
    ELSE min(100, base_chance + max(0, ESCAPE_INCREMENT * (attempt - 1)))

\* One failed turn's cost.
lose_durability_mutant_keeps(durability) == max(0, durability)
lose_durability(durability) == max(0, durability - 1)

\* The exhaustion test after the action's cost: on the turn the durability runs out.
exhausted_mutant_deferred(battle_over, durability) == ~battle_over /\ durability < 0
exhausted(battle_over, durability) == ~battle_over /\ durability <= 0

\* The durability stored on return: full again once the battle is over.
stored_durability_mutant_no_reset(battle_over, durability, max_durability) == durability
stored_durability(battle_over, durability, max_durability) ==
    IF battle_over THEN max_durability ELSE durability

\* state["active"] on return
still_active_mutant_always(battle_over) == TRUE
still_active(battle_over) == ~battle_over

NoBattleResult == [battle_over |-> TRUE, player_damage |-> 0, enemy_damage |-> 0]

\* The outcome of a call that raised instead of returning.
Raised(error) == [raised |-> error]

\* enemy.name, read for the victory message: the enemy of a loaded save is the
\* str() of the EnemyState, which has no such attribute
enemy_name_raises(state) == "str" \in DOMAIN state.enemy

\* Gives [p |-> player after, ret |-> the returned dict (messages left out)].
perform_battle_action(p, action, config, draw) ==
    IF ~is_battle_active(p) THEN [p |-> p, ret |-> NoBattleResult]
    ELSE
    LET state == p.battle_state
        max_turns == max(state.max_turns, 1)
        durability0 == max(state.durability, 0)
        max_durability == max(state.max_durability, 1)
        attack_attempt == state.attack_attempts + 1
        escape_attempt == state.escape_attempts + 1
        victory == /\ action = "attack"
                   /\ attack_success(attack_attempt, max_turns,
                                     get(config, "attack_chance", DEFAULT_ATTACK_CHANCE), draw)
        escaped == /\ action = "escape"
                   /\ draw < escape_chance(escape_attempt, max_turns,
                                           get(config, "escape_chance", DEFAULT_ESCAPE_CHANCE))
        durability_loss == IF victory \/ escaped THEN 0 ELSE 1
        durability1 == IF victory \/ escaped THEN durability0 ELSE lose_durability(durability0)
        defeat == exhausted(victory \/ escaped, durability1)
        battle_over == victory \/ escaped \/ defeat
        durability == stored_durability(battle_over, durability1, max_durability)
        state1 == [state EXCEPT
                     !.turn_count = @ + 1,
                     !.attack_attempts = IF action = "attack" THEN @ + 1 ELSE @,
                     !.escape_attempts = IF action = "escape" THEN @ + 1 ELSE @,
                     !.active = still_active(battle_over),
                     !.victory = victory,
                     !.escaped = escaped,
                     !.defeat = defeat,
                     !.durability = durability,
                     !.max_durability = max_durability]
    IN  IF victory /\ enemy_name_raises(state)
        THEN [ p |-> [p EXCEPT !.battle_state.turn_count = @ + 1,
                               !.battle_state.attack_attempts = @ + 1],
               ret |-> Raised("AttributeError") ]
        ELSE
        [ p |-> [p EXCEPT !.battle_state = state1],
          ret |-> [ battle_over |-> battle_over,
                    victory |-> victory,
                    escaped |-> escaped,
                    defeat |-> defeat,
                    durability_loss |-> durability_loss,
                    remaining_durability |-> durability,
                    turn_count |-> state1.turn_count,
                    player_damage |-> 0,
                    enemy_damage |-> 0 ] ]

\* ------------------------------------------------------------------------
\* event_manager.py
\* ------------------------------------------------------------------------
MIDBAND_MIN == 40
MIDBAND_MAX == 60
MIDBAND_LIMIT == 3
FATE_TRIGGER_MIDBAND_ID == "fate_intervention"
INTRO_EVENT_ID == "mission_briefing"
MISSION_BRIEF_FLAG == "mission_briefed"
MISSION_POTION_NAME == "healing_potion"

DEFAULT_EVENT_TYPES == {"normal", "battle", "dialogue", "conditional", "milestone"}

\* The catalog loaded from data/story_data.json: a fixture with the intro
\* briefing (which passes no filter of the weighted tier), the midband trigger,
\* a lock event and ordinary events that exercise type, weight, cooldown, once,
\* chapter gate and condition block.
ALL_EVENTS ==
    << [id |-> INTRO_EVENT_ID, type |-> "dialogue", weight |-> 0, once |-> TRUE,
        condition |-> [chapter_min |-> 2]],
       [id |-> FATE_TRIGGER_MIDBAND_ID, type |-> "milestone", weight |-> 0, once |-> TRUE,
        condition |-> [fate_min |-> 45]],
       [id |-> "patrol", type |-> "normal", weight |-> 1, cooldown |-> 1],
       [id |-> "ambush", type |-> "battle", weight |-> 3, cooldown |-> 2, once |-> TRUE,
        enemy |-> [name |-> "wolf", hp |-> 5], battle_durability |-> 2, battle_max_turns |-> 3],
       [id |-> "fate_lock_mid", type |-> "milestone", weight |-> 1, once |-> TRUE],
       [id |-> "shrine", type |-> "conditional", weight |-> 0, cooldown |-> 3],
       [id |-> "rumor", type |-> "dialogue", weight |-> 2, chapter |-> 2,
        condition |-> [flag_on |-> {MISSION_BRIEF_FLAG}]] >>

EventIds == {ALL_EVENTS[i].id : i \in 1..Len(ALL_EVENTS)}

\* EVENT_LOOKUP.get(event_id): the index of the event in the catalog, 0 if absent
get_event_by_id(event_id) ==
    IF event_id \in EventIds
    THEN CHOOSE i \in 1..Len(ALL_EVENTS) : ALL_EVENTS[i].id = event_id
    ELSE 0

_tick_cooldowns_mutant_keep_zero(p) ==
    LET cooldowns == p.event_cooldowns
        kept == {id \in DOMAIN cooldowns : cooldowns[id] > 0}
    IN  [p EXCEPT !.event_cooldowns = [id \in kept |-> cooldowns[id] - 1]]
_tick_cooldowns(p) ==
    LET cooldowns == p.event_cooldowns
        kept == {id \in DOMAIN cooldowns : cooldowns[id] > 0 /\ cooldowns[id] - 1 > 0}
    IN  [p EXCEPT !.event_cooldowns = [id \in kept |-> cooldowns[id] - 1]]

_is_on_cooldown(event, p) == get(p.event_cooldowns, event.id, 0) > 0

_was_consumed_mutant_never(event, p) == FALSE
_was_consumed(event, p) == event.id \in p.consumed_events

_apply_cooldown(event, p) ==
    LET cooldown == max(0, get(event, "cooldown", 0))
        cooldowns == p.event_cooldowns
    IN  IF cooldown # 0
        THEN [p EXCEPT !.event_cooldowns =
                 [id \in DOMAIN cooldowns \cup {event.id} |->
                     IF id = event.id THEN cooldown ELSE cooldowns[id]]]
        ELSE p

_mark_consumed(event, p) == [p EXCEPT !.consumed_events = @ \cup {event.id}]

_prepare_event(p, event) == _mark_consumed(event, _apply_cooldown(event, p))

is_event_condition_met(event, p) ==
    LET required_chapter == get(event, "chapter", 0)
        condition == get(event, "condition", [none |-> TRUE])
        has(key) == key \in DOMAIN condition
        inventory == {p.inventory[i] : i \in 1..Len(p.inventory)}
    IN  /\ ~(required_chapter # 0 /\ p.chapter < required_chapter)
        /\ ~(has("fate_min") /\ p.fate < condition.fate_min)
        /\ ~(has("fate_max") /\ p.fate > condition.fate_max)
        /\ ~(has("hp_min") /\ p.hp < condition.hp_min)
        /\ ~(has("hp_max") /\ p.hp > condition.hp_max)
        /\ ~(has("chapter_is") /\ p.chapter # condition.chapter_is)
        /\ ~(has("chapter_min") /\ p.chapter < condition.chapter_min)
        /\ ~(has("chapter_max") /\ p.chapter > condition.chapter_max)
        /\ (has("inventory_has") => condition.inventory_has \subseteq inventory)
        /\ (has("inventory_not") => condition.inventory_not \cap inventory = {})
        /\ (has("flag_on") => condition.flag_on \subseteq p.flags)
        /\ (has("flag_off") => condition.flag_off \cap p.flags = {})

_increment_midband_counter(p) ==
    IF MIDBAND_MIN <= p.fate /\ p.fate <= MIDBAND_MAX
    THEN [p EXCEPT !.midband_counter = @ + 1]
    ELSE [p EXCEPT !.midband_counter = 0]

midband_due_mutant_off_by_one(streak) == streak > MIDBAND_LIMIT
midband_due(streak) == streak >= MIDBAND_LIMIT

\* The candidate list of the weighted tier: catalog indices, in catalog order.
candidates_mutant_any_weight(event_types, p) ==
    {i \in 1..Len(ALL_EVENTS) :
        /\ ALL_EVENTS[i].type \in event_types
        /\ ~_was_consumed(ALL_EVENTS[i], p)
        /\ ~_is_on_cooldown(ALL_EVENTS[i], p)
        /\ is_event_condition_met(ALL_EVENTS[i], p)}
candidates(event_types, p) ==
    {i \in 1..Len(ALL_EVENTS) :
        /\ ALL_EVENTS[i].type \in event_types
        /\ ~_was_consumed(ALL_EVENTS[i], p)
        /\ ~_is_on_cooldown(ALL_EVENTS[i], p)
        /\ is_event_condition_met(ALL_EVENTS[i], p)
        /\ get(ALL_EVENTS[i], "weight", 1) > 0}

\* player["forced_event"] = None, as soon as a pending id has been read
take_forced_event_mutant_keep(p) == p
take_forced_event(p) == [p EXCEPT !.forced_event = None]

\* return None: the no-event signal
no_event_mutant_marks_trigger(p) ==
    [p |-> [p EXCEPT !.consumed_events = @ \cup {FATE_TRIGGER_MIDBAND_ID}], ret |-> None,
     tier |-> "none"]
no_event(p) == [p |-> p, ret |-> None, tier |-> "none"]

\* The midband tier and the weighted tier; p2 is the player after the forced tier.
\* `chosen` is the catalog index random.choices draws (0 when there is no candidate).
select_unforced(event_types, p2, chosen) ==
    bind(_increment_midband_counter(p2), LAMBDA p3 :
        LET trigger == get_event_by_id(FATE_TRIGGER_MIDBAND_ID)
        IN  IF /\ midband_due(p3.midband_counter)
               /\ trigger # 0
               /\ ~_was_consumed(ALL_EVENTS[trigger], p3)
               /\ is_event_condition_met(ALL_EVENTS[trigger], p3)
            THEN [p |-> _prepare_event([p3 EXCEPT !.midband_counter = 0], ALL_EVENTS[trigger]),
                  ret |-> ALL_EVENTS[trigger].id, tier |-> "midband"]
            ELSE IF candidates(event_types, p3) = {}
            THEN no_event(p3)
            ELSE [p |-> _prepare_event(p3, ALL_EVENTS[chosen]), ret |-> ALL_EVENTS[chosen].id,
                  tier |-> "weighted"])

\* The tiers after the cooldown tick and the intro tier; p1 is the player after the tick.
select_after_intro_mutant_stop_on_unusable(event_types, p1, chosen) ==
    LET forced_event_id == p1.forced_event
        p2 == IF forced_event_id # None THEN take_forced_event(p1) ELSE p1
        forced == IF forced_event_id # None THEN get_event_by_id(forced_event_id) ELSE 0
    IN  IF forced # 0 /\ ~_was_consumed(ALL_EVENTS[forced], p2)
        THEN [p |-> _prepare_event(p2, ALL_EVENTS[forced]), ret |-> ALL_EVENTS[forced].id,
              tier |-> "forced"]
        ELSE IF forced_event_id # None THEN no_event(p2)
        ELSE select_unforced(event_types, p2, chosen)
select_after_intro(event_types, p1, chosen) ==
    LET forced_event_id == p1.forced_event
        p2 == IF forced_event_id # None THEN take_forced_event(p1) ELSE p1
        forced == IF forced_event_id # None THEN get_event_by_id(forced_event_id) ELSE 0
    IN  IF forced # 0 /\ ~_was_consumed(ALL_EVENTS[forced], p2)
        THEN [p |-> _prepare_event(p2, ALL_EVENTS[forced]), ret |-> ALL_EVENTS[forced].id,
              tier |-> "forced"]
        ELSE select_unforced(event_types, p2, chosen)

\* The test of the intro tier: the briefing exists, its flag is unset, it is unconsumed.
intro_due_mutant_filtered(p) ==
    LET intro == get_event_by_id(INTRO_EVENT_ID)
    IN  /\ intro # 0
        /\ MISSION_BRIEF_FLAG \notin p.flags
        /\ ~_was_consumed(ALL_EVENTS[intro], p)
        /\ is_event_condition_met(ALL_EVENTS[intro], p)
intro_due(p) ==
    LET intro == get_event_by_id(INTRO_EVENT_ID)
    IN  /\ intro # 0
        /\ MISSION_BRIEF_FLAG \notin p.flags
        /\ ~_was_consumed(ALL_EVENTS[intro], p)

\* Gives [p |-> player after, ret |-> id of the returned event or None, tier |-> the
\* branch that returned].
get_random_event(event_types, p, chosen) ==
    bind(_tick_cooldowns(p), LAMBDA p1 :
        LET intro == get_event_by_id(INTRO_EVENT_ID)
        IN  IF intro_due(p1)
            THEN [p |-> _prepare_event(p1, ALL_EVENTS[intro]), ret |-> ALL_EVENTS[intro].id,
                  tier |-> "intro"]
            ELSE select_after_intro(event_types, p1, chosen))

\* The values random.choices can draw in get_random_event for this player.
choices(event_types, p) ==
    LET p1 == _tick_cooldowns(p)
        p2 == [p1 EXCEPT !.forced_event = None]
    IN  bind(_increment_midband_counter(p2), LAMBDA p3 :
            bind(candidates(event_types, p3), LAMBDA c : IF c = {} THEN {0} ELSE c))

\* ------------------------------------------------------------------------
\* text_log.py
\* The log is log_history and the queue state of the module.  An entry is its
\* text, its category and its on_show callback; an entry of log_history, whose
\* callback has run, is its text and category.  The text is kept where a
\* property tells entries apart and is "" elsewhere.  An optional value is a
\* sequence of at most one element (<<>> is None).  A world is [p |-> the player,
\* log |-> the log]: a callback that fires changes p.
\* ------------------------------------------------------------------------
_TYPEWRITER_CATEGORIES == {"narration"}
_DEV_LOG_CATEGORIES == {"dev"}

NoCallback == [kind |-> "none", item |-> None]
TextEntry(text, category, on_show) == [text |-> text, category |-> category, on_show |-> on_show]
LogEntry(category, on_show) == TextEntry("", category, on_show)

\* the module globals after import with no stored preference
init_text_log ==
    [ log_history |-> <<>>,
      _pending_entries |-> <<>>,
      _active_entry |-> <<>>,
      _typewriter_enabled |-> TRUE,
      _typewriter_override |-> <<>>,
      _dev_log_enabled |-> FALSE ]

contains(seq, x) == \E i \in 1..Len(seq) : seq[i] = x

\* list.remove: drops the first occurrence
remove(seq, x) ==
    LET i == CHOOSE k \in 1..Len(seq) : seq[k] = x /\ \A j \in 1..(k - 1) : seq[j] # x
    IN  SubSeq(seq, 1, i - 1) \o SubSeq(seq, i + 1, Len(seq))

\* The callbacks event_result_handler attaches to its log lines.
_apply_gain(p, item_name) ==
    IF ~contains(p.inventory, item_name) THEN [p EXCEPT !.inventory = Append(@, item_name)]
    ELSE p

_apply_loss(p, item_name) ==
    IF contains(p.inventory, item_name) THEN [p EXCEPT !.inventory = remove(@, item_name)]
    ELSE p

_apply_brief_reward_mutant_no_recheck(p) ==
    [p EXCEPT !.inventory = Append(@, MISSION_POTION_NAME)]
_apply_brief_reward(p) ==
    IF ~contains(p.inventory, MISSION_POTION_NAME)
    THEN [p EXCEPT !.inventory = Append(@, MISSION_POTION_NAME)]
    ELSE p

\* callback(): the closure stored in entry.on_show, run on the player
\* Two more closures stand for what a caller may pass: "append" adds its item to
\* the inventory every time it runs, "raise" raises an exception before it has
\* changed anything.
callback(p, on_show) ==
    IF on_show.kind = "gain" THEN _apply_gain(p, on_show.item)
    ELSE IF on_show.kind = "loss" THEN _apply_loss(p, on_show.item)
    ELSE IF on_show.kind = "brief_reward" THEN _apply_brief_reward(p)
    ELSE IF on_show.kind = "append" THEN [p EXCEPT !.inventory = Append(@, on_show.item)]
    ELSE p

_effective_typewriter_enabled(log) ==
    IF log._typewriter_override = <<>> THEN log._typewriter_enabled
    ELSE log._typewriter_override[1]

_should_typewriter(log, entry) ==
    _effective_typewriter_enabled(log) /\ entry.category \in _TYPEWRITER_CATEGORIES

\* entry.on_show is set to None and the callback called; an exception it raises
\* is swallowed
_trigger_on_show_mutant_runs_twice(w, entry) ==
    [w EXCEPT !.p = callback(callback(@, entry.on_show), entry.on_show)]
_trigger_on_show(w, entry) == [w EXCEPT !.p = callback(@, entry.on_show)]

\* The entry joins log_history and its callback fires.
_append_entry(w, entry) ==
    _trigger_on_show(
        [w EXCEPT !.log.log_history = Append(@, [text |-> entry.text, category |-> entry.category])],
        entry)

_start_active_entry(w, entry) == [w EXCEPT !.log._active_entry = <<entry>>]

_enqueue_mutant_skips_queue(world, entry) ==
    bind(world, LAMBDA w :
        IF _should_typewriter(w.log, entry)
        THEN IF w.log._active_entry # <<>>
             THEN [w EXCEPT !.log._pending_entries = Append(@, entry)]
             ELSE _start_active_entry(w, entry)
        ELSE _append_entry(w, entry))
_enqueue(world, entry) ==
    bind(world, LAMBDA w :
        IF w.log._active_entry # <<>> THEN [w EXCEPT !.log._pending_entries = Append(@, entry)]
        ELSE IF _should_typewriter(w.log, entry) THEN _start_active_entry(w, entry)
        ELSE _append_entry(w, entry))

add_text(w, text, category, on_show) ==
    IF category \in _DEV_LOG_CATEGORIES /\ ~w.log._dev_log_enabled THEN w
    ELSE _enqueue(w, TextEntry(text, category, on_show))

add(w, category, on_show) == add_text(w, "", category, on_show)

\* while _pending_entries: _append_entry(_pending_entries.pop(0))
RECURSIVE append_pending(_)
append_pending(world) ==
    bind(world, LAMBDA w :
        IF w.log._pending_entries = <<>> THEN w
        ELSE append_pending(_append_entry([w EXCEPT !.log._pending_entries = Tail(@)],
                                          Head(w.log._pending_entries))))

_flush_pending_entries(world) ==
    bind(world, LAMBDA w :
        append_pending(IF w.log._active_entry # <<>>
                       THEN [_append_entry(w, w.log._active_entry[1])
                                EXCEPT !.log._active_entry = <<>>]
                       ELSE w))

RECURSIVE _promote_pending(_)
_promote_pending(world) ==
    bind(world, LAMBDA w :
        IF w.log._active_entry # <<>> \/ w.log._pending_entries = <<>> THEN w
        ELSE LET candidate == Head(w.log._pending_entries)
                 w1 == [w EXCEPT !.log._pending_entries = Tail(@)]
             IN  IF _should_typewriter(w1.log, candidate) THEN _start_active_entry(w1, candidate)
                 ELSE _promote_pending(_append_entry(w1, candidate)))

clear_history(w) ==
    [w EXCEPT !.log.log_history = <<>>, !.log._pending_entries = <<>>, !.log._active_entry = <<>>]

\* `entries` are the dicts snapshot_history gave
set_history(w, entries) == [clear_history(w) EXCEPT !.log.log_history = entries]

\* `finished` tells whether the progress made in dt reaches the end of the active text.
update_typewriter(world, finished) ==
    bind(world, LAMBDA w :
        IF ~_effective_typewriter_enabled(w.log)
        THEN IF w.log._active_entry # <<>> \/ w.log._pending_entries # <<>>
             THEN _flush_pending_entries(w) ELSE w
        ELSE IF w.log._active_entry = <<>> THEN _promote_pending(w)
        ELSE IF finished
        THEN _promote_pending([_append_entry(w, w.log._active_entry[1])
                                  EXCEPT !.log._active_entry = <<>>])
        ELSE w)

set_typewriter_enabled(w, enabled) ==
    IF w.log._typewriter_enabled = enabled THEN w
    ELSE LET w1 == [w EXCEPT !.log._typewriter_enabled = enabled]
         IN  IF ~enabled THEN _flush_pending_entries(w1) ELSE _promote_pending(w1)

\* `enabled` is <<>> (None), <<TRUE>> or <<FALSE>>
set_typewriter_override(w, enabled) ==
    LET w1 == [w EXCEPT !.log._typewriter_override = enabled]
    IN  IF enabled = <<FALSE>> THEN _flush_pending_entries(w1)
        ELSE IF enabled = <<TRUE>> THEN _promote_pending(w1)
        ELSE w1

\* The stored form of an entry: its callback is not part of it.
export_entry(entry) == [text |-> entry.text, category |-> entry.category]

export_state(log) ==
    [ log_history |-> log.log_history,
      pending_entries |-> [i \in 1..Len(log._pending_entries) |->
                              export_entry(log._pending_entries[i])],
      active_entry |-> [i \in 1..Len(log._active_entry) |-> export_entry(log._active_entry[i])],
      typewriter_enabled |-> log._typewriter_enabled ]

\* reset(), then the stored state; `log` gives the stored preferences
load_state(log, state) ==
    LET enabled == state.typewriter_enabled
        pending == [i \in 1..Len(state.pending_entries) |->
                       TextEntry(state.pending_entries[i].text,
                                 state.pending_entries[i].category, NoCallback)]
        active == [i \in 1..Len(state.active_entry) |->
                      TextEntry(state.active_entry[i].text, state.active_entry[i].category,
                                NoCallback)]
    IN  [ log_history |-> IF enabled THEN state.log_history
                          ELSE state.log_history \o state.active_entry \o state.pending_entries,
          _pending_entries |-> IF enabled THEN pending ELSE <<>>,
          _active_entry |-> IF enabled THEN active ELSE <<>>,
          _typewriter_enabled |-> enabled,
          _typewriter_override |-> <<>>,
          _dev_log_enabled |-> log._dev_log_enabled ]

\* ------------------------------------------------------------------------
\* event_result_handler.py
\* A result is a record holding the keys the option declares; an effect
\* mapping is the sequence of its <<key, value>> items in dict order.
\* ------------------------------------------------------------------------
_apply_numeric_change(p, key, value) ==
    IF key \notin DOMAIN p THEN p
    ELSE [p EXCEPT ![key] = IF @ + value < 0 THEN 0 ELSE @ + value]

apply_effect_item(p, key, value) ==
    IF key = "fate" THEN apply_normal_choice(p, value)
    ELSE IF key = "fate_major" THEN apply_major_choice(p, value)
    ELSE IF key = "fate_bias" THEN apply_fate_change(p, value, "bias")
    ELSE _apply_numeric_change(p, key, value)

RECURSIVE _apply_effects(_, _)
_apply_effects(p, effects) ==
    IF effects = <<>> THEN p
    ELSE _apply_effects(apply_effect_item(p, Head(effects)[1], Head(effects)[2]), Tail(effects))

or_mutant_prefers_second(a, b) == IF b # None THEN b ELSE a
or(a, b) == IF a # None THEN a ELSE b

\* for entry in log_entry: text_log.add(entry)
RECURSIVE add_lines(_, _)
add_lines(w, lines) ==
    IF lines = <<>> THEN w
    ELSE add_lines(add(w, "narration", NoCallback), Tail(lines))

\* for item in items: text_log.add(..., category="system", on_show=<kind>(item))
RECURSIVE add_items(_, _, _)
add_items(w, items, kind) ==
    IF items = <<>> THEN w
    ELSE add_items(add(w, "system", [kind |-> kind, item |-> Head(items)]), Tail(items), kind)

\* The steps of handle_event_result, in the order of the code.  Each works on the
\* record [p |-> player, log |-> text log, ret |-> forced event id or None,
\* outcome |-> battle outcome or None].  Of the log lines only those that can hold
\* the queue (category narration) or carry a callback are queued: a system line
\* without callback neither waits for nor blocks another entry.

\* ending segments and the primary text
result_text(world, result) ==
    bind(world, LAMBDA w :
        LET text == get(result, "text", "")
            ending == \/ get(result, "ending_segments", <<>>) # <<>>
                      \/ (get(result, "end_game", FALSE) /\ text # "")
            w1 == IF ending THEN [clear_history(w) EXCEPT !.p.ending_active = TRUE] ELSE w
        IN  IF ending \/ text # "" THEN add(w1, "narration", NoCallback) ELSE w1)

\* the forced event, the battle action and the effects of its outcome
result_battle(world, result, draw) ==
    bind(world, LAMBDA w :
        IF "battle_action" \notin DOMAIN result
        THEN [w EXCEPT !.ret = get(result, "forced_event", None)]
        ELSE bind(perform_battle_action(w.p, result.battle_action, result, draw),
                  LAMBDA battle :
            IF "raised" \in DOMAIN battle.ret
            THEN [w EXCEPT !.p = battle.p, !.ret = None, !.outcome = battle.ret]
            ELSE
            LET outcome == battle.ret
                over == outcome.battle_over
                victory == over /\ get(outcome, "victory", FALSE)
                escaped == over /\ get(outcome, "escaped", FALSE)
                forced0 == get(result, "forced_event", None)
                forced1 == IF over THEN or(forced0, get(result, "forced_event_on_end", None))
                           ELSE forced0
                forced2 == IF over /\ ~victory /\ ~escaped
                           THEN or(forced1, get(result, "forced_event_on_defeat", None))
                           ELSE forced1
                pb == IF ~over THEN battle.p
                      ELSE IF victory
                      THEN _apply_effects(battle.p, get(result, "victory_effect", <<>>))
                      ELSE IF escaped
                      THEN _apply_effects(battle.p, get(result, "escape_effect", <<>>))
                      ELSE _apply_effects(battle.p, get(result, "defeat_effect", <<>>))
            IN  [w EXCEPT !.p = pb, !.ret = forced2, !.outcome = outcome]))

\* emit_log and end_game
result_end_game(world, result) ==
    bind(add_lines(world, get(result, "emit_log", <<>>)), LAMBDA w :
        IF get(result, "end_game", FALSE)
        THEN set_typewriter_override(
                 [w EXCEPT !.p.flags = @ \cup {"ending_cinematic"}, !.p.ending_active = TRUE],
                 <<TRUE>>)
        ELSE w)

\* effect, inventory_add and inventory_remove
result_effect(world, result) ==
    bind(world, LAMBDA w :
        add_items(add_items([w EXCEPT !.p = _apply_effects(@, get(result, "effect", <<>>))],
                            get(result, "inventory_add", <<>>), "gain"),
                  get(result, "inventory_remove", <<>>), "loss"))

\* flags_set with the briefing reward, flags_clear and goto_chapter
result_flags(world, result) ==
    bind(world, LAMBDA w :
        LET flags_set == get(result, "flags_set", {})
            w1 == [w EXCEPT !.p.flags = @ \cup flags_set]
            w2 == IF /\ MISSION_BRIEF_FLAG \in flags_set
                     /\ ~contains(w.p.inventory, MISSION_POTION_NAME)
                  THEN add(w1, "system", [kind |-> "brief_reward", item |-> MISSION_POTION_NAME])
                  ELSE w1
            goto_chapter == get(result, "goto_chapter", 0)
        IN  [w2 EXCEPT !.p.flags = @ \ get(result, "flags_clear", {}),
                       !.p.chapter = IF goto_chapter # 0 THEN goto_chapter ELSE @])

\* Gives [p |-> player after, log |-> text log after, ret |-> the forced event id or
\* None, outcome |-> the battle outcome or None].
handle_event_result(p, log, result, draw) ==
    LET w0 == [p |-> p, log |-> log, ret |-> None, outcome |-> [none |-> TRUE]]
        w1 == result_text(w0, result)
        w2 == result_battle(w1, result, draw)
        w3 == result_end_game(w2, result)
        w4 == result_effect(w3, result)
    IN  IF "raised" \in DOMAIN w2.outcome THEN w2 ELSE result_flags(w4, result)

\* ------------------------------------------------------------------------
\* save_manager.py
\* consumed_events is a Python set in memory (init_player_state creates a set,
\* load_game converts) and a JSON array in the file.  A value of either shape is
\* [type |-> "set" or "list", ids |-> the members of a set, items |-> the elements
\* of a list in order]; the player record of the model holds the members.
\* ------------------------------------------------------------------------
py_set(ids) == [type |-> "set", ids |-> ids, items |-> <<>>]
py_list(items) == [type |-> "list", ids |-> {}, items |-> items]

\* set(value) for a list
set_mutant_skips_repeated(value) ==
    py_set({value.items[i] : i \in {k \in 1..Len(value.items) :
                                       \A j \in 1..Len(value.items) :
                                           value.items[j] = value.items[k] => j = k}})
set(value) == py_set({value.items[i] : i \in 1..Len(value.items)})

\* The ids of the catalog in the order sorted() puts them.
ID_ORDER ==
    <<"ambush", "fate_intervention", "fate_lock_mid", "mission_briefing", "patrol", "rumor",
      "shrine">>

\* sorted(value) for a set of catalog ids
sorted(value) == py_list(SelectSeq(ID_ORDER, LAMBDA id : id \in value.ids))

\* Of the values a player holds, a set becomes a sorted list and an object that is
\* no JSON type (the EnemyState of a battle) its str(); every other value is kept.
_to_json_safe(value) == IF value.type = "set" THEN sorted(value) ELSE value

_serialize_player(p) ==
    [p EXCEPT !.consumed_events = _to_json_safe(py_set(@)),
              !.battle_state = IF @.present THEN [@ EXCEPT !.enemy = [str |-> @]] ELSE @]

_deserialize_player(data) ==
    IF data.consumed_events.type = "list"
    THEN [data EXCEPT !.consumed_events = set(@)]
    ELSE data

\* event_manager._ensure_consumed_set, on the value stored in the player; the
\* same conversion is written out in event_manager._was_consumed
_ensure_consumed_set(consumed) ==
    IF consumed.type = "list" THEN set(consumed) ELSE consumed

\* The payload main.persist_game_state hands to save_game, as json.dump writes it.
save_game(p, log) == [player |-> _serialize_player(p), text_log |-> export_state(log)]

\* The payload json.loads reads, with the player converted.
load_game(file) == [file EXCEPT !.player = _deserialize_player(@)]

\* ------------------------------------------------------------------------
\* main.py : the game loop
\* A machine is [p |-> the player, log |-> the text log, g |-> the loop globals].
\* The walk animation between the click on "forward" and the entry of the event,
\* the attack animation between the click on an option and its result, and the
\* layout transition that closes the intro cinematic are not kept: each pair is
\* one step.
\* ------------------------------------------------------------------------
\* intro_segments of the briefing event (data/story_data.json)
INTRO_SEGMENTS == <<"the briefing room">>

is_typewriter_animating(log) == log._active_entry # <<>> /\ _effective_typewriter_enabled(log)

\* the event dict behind g.current_event
current_event(g) == ALL_EVENTS[get_event_by_id(g.current_event)]

in_battle_event(g) == g.current_event # None /\ current_event(g).type = "battle"

start_intro_cinematic(m) ==
    clear_history(set_typewriter_override(
        [m EXCEPT !.g.intro_cinematic_active = TRUE,
                  !.g.intro_segment_index = 0,
                  !.g.intro_log_history = m.log.log_history], <<TRUE>>))

\* text_log.clear_history(), text_log.add(segments[index])
advance_intro_segment(m) ==
    add(clear_history([m EXCEPT !.g.intro_segment_index = @ + 1,
                                !.g.intro_log_history =
                                    Append(@, [text |-> "", category |-> "narration"])]),
        "narration", NoCallback)

\* the end of the layout transition that follows the last segment
exit_intro_cinematic(m) ==
    set_typewriter_override(
        [(IF m.g.intro_log_history # <<>> THEN set_history(m, m.g.intro_log_history) ELSE m)
            EXCEPT !.g.intro_cinematic_active = FALSE, !.g.intro_cinematic_done = TRUE], <<>>)

\* The walk has ended: the next event is selected and entered.
enter_event(m, chosen) ==
    bind(get_random_event(DEFAULT_EVENT_TYPES, m.p, chosen), LAMBDA r :
        IF r.ret = None
        THEN [m EXCEPT !.p = r.p, !.g.game_state = "main_screen", !.g.sub_state = "wait"]
        ELSE LET event == ALL_EVENTS[get_event_by_id(r.ret)]
                 m1 == [m EXCEPT !.p = r.p,
                                 !.g.game_state = "main_screen",
                                 !.g.current_event = r.ret,
                                 !.g.sub_state = "show_event",
                                 !.g.entry_steps = r.p.steps]
             IN  IF r.ret = INTRO_EVENT_ID /\ ~m.g.intro_cinematic_done
                 THEN start_intro_cinematic(m1)
                 ELSE bind(add(m1, "narration", NoCallback), LAMBDA m2 :
                          IF event.type = "battle"
                          THEN [m2 EXCEPT !.p = start_battle(@, event)]
                          ELSE m2))

\* battle_continues of apply_result_and_advance, on the player the handler left
battle_continues_mutant_never(g, p) == FALSE
battle_continues(g, p) == in_battle_event(g) /\ is_battle_active(p)

\* Gives the machine after, with ret |-> what handle_event_result returned,
\* outcome |-> the battle outcome, battle_continues |-> the returned flag.  An
\* exception raised by the handler ends the program: g.crashed.
apply_result_and_advance(m, result, draw) ==
    bind(handle_event_result(m.p, m.log, result, draw), LAMBDA r :
        LET out == [p |-> r.p, log |-> r.log, g |-> m.g, ret |-> r.ret,
                    outcome |-> r.outcome, battle_continues |-> FALSE]
        IN  IF "raised" \in DOMAIN r.outcome THEN [out EXCEPT !.g.crashed = TRUE]
            ELSE IF battle_continues(m.g, r.p)
            THEN [out EXCEPT !.battle_continues = TRUE,
                             !.g.pending_clear_event = FALSE,
                             !.g.clear_event_timer = 0,
                             !.g.sub_state = "show_event"]
            ELSE IF r.p.ending_active
            THEN [out EXCEPT !.g.pending_clear_event = FALSE,
                             !.g.clear_event_timer = 0,
                             !.g.sub_state = "ending"]
            ELSE bind(post_event_update(r.p), LAMBDA u :
                     [out EXCEPT !.p = IF u.ret # None THEN [u.p EXCEPT !.forced_event = u.ret]
                                       ELSE u.p,
                                 !.g.pending_clear_event = TRUE,
                                 !.g.clear_event_timer = 1,
                                 !.g.sub_state = "after_result"]))

\* The payload of persist_game_state as json.dump writes it.  The intro flags,
\* which the code keeps in the player dict, are stored with the loop globals.
persist_game_state(m) == [player |-> _serialize_player(m.p),
                          text_log |-> export_state(m.log),
                          game |-> m.g]

\* "延遲後清除事件": the event is cleared one frame after its result
clear_event(m) ==
    IF ~m.g.pending_clear_event THEN m
    ELSE IF m.g.clear_event_timer > 0 THEN [m EXCEPT !.g.clear_event_timer = @ - 1]
    ELSE [m EXCEPT !.p = IF in_battle_event(m.g) THEN clear_battle_state(@) ELSE @,
                   !.g.current_event = None,
                   !.g.sub_state = "wait",
                   !.g.pending_clear_event = FALSE]

\* `log` is the text log of the restarted program.
load_saved_adventure(file, log) ==
    bind(load_game(file), LAMBDA data :
        LET m == [p |-> [data.player EXCEPT !.consumed_events = @.ids],
                  log |-> load_state(log, data.text_log),
                  g |-> [data.game EXCEPT !.crashed = FALSE]]
        IN  IF /\ m.g.current_event = INTRO_EVENT_ID
               /\ ~m.g.intro_cinematic_done
               /\ ~m.g.intro_cinematic_active
            THEN start_intro_cinematic(m)
            ELSE m)

\* ------------------------------------------------------------------------
\* Operations
\* ------------------------------------------------------------------------
NoCall == [op |-> "init"]

\* The callbacks waiting in the log, oldest first: the active entry, then the pending ones.
queued_callbacks(log) ==
    LET queued == log._active_entry \o log._pending_entries
        waiting == SelectSeq(queued, LAMBDA entry : entry.on_show.kind # "none")
    IN  [i \in 1..Len(waiting) |-> waiting[i].on_show.kind]

\* main.py: the module globals at start, before any event is entered
init_game ==
    [ game_state |-> "start_menu",
      sub_state |-> "wait",
      current_event |-> None,
      pending_clear_event |-> FALSE,
      clear_event_timer |-> 0,
      intro_cinematic_active |-> FALSE,
      intro_cinematic_done |-> FALSE,
      intro_segment_index |-> 0,
      intro_log_history |-> <<>>,
      crashed |-> FALSE,
      saved |-> FALSE,
      entry_steps |-> 0 ]

Init ==
    /\ player = init_player_state
    /\ call = NoCall
    /\ fate_log = <<>>
    /\ selection = [log |-> [id \in {} |-> 0], band_calls |-> 0, band_reached |-> 0]
    /\ n_calls = 0
    /\ text_log = init_text_log
    /\ refusals = 0
    /\ save_file = <<>>
    /\ game = init_game

ApplyFateChangeCall(kind, delta) ==
    /\ player' = apply_fate_change(player, delta, kind)
    /\ call' = [op |-> "apply_fate_change", kind |-> kind, delta |-> delta,
                old_fate |-> player.fate, old_history |-> player.fate_history]
    /\ fate_log' = IF _limit_delta(delta, kind) # 0 THEN Append(fate_log, player'.fate)
                   ELSE fate_log
    /\ UNCHANGED <<selection, text_log, refusals, save_file>>

ApplyChapterBiasCall ==
    /\ player' = apply_chapter_bias(player)
    /\ call' = [op |-> "apply_chapter_bias", old_fate |-> player.fate]
    /\ UNCHANGED <<fate_log, refusals, selection, text_log, save_file>>

\* main.apply_result_and_advance: post_event_update, then the returned id is stored
PostEventUpdateCall ==
    /\ player.steps < MaxSteps
    /\ \E r \in {post_event_update(player)} :
           /\ player' = IF r.ret # None THEN [r.p EXCEPT !.forced_event = r.ret] ELSE r.p
           /\ call' = [op |-> "post_event_update", ret |-> r.ret, old_fate |-> player.fate,
                       old_chapter |-> player.chapter]
    /\ UNCHANGED <<fate_log, refusals, selection, text_log, save_file>>

MaybePrepareEndingCall ==
    /\ \E r \in {maybe_prepare_ending(player)} :
           /\ player' = r.p
           /\ call' = [op |-> "maybe_prepare_ending", ret |-> r.ret]
    /\ UNCHANGED <<fate_log, refusals, selection, text_log, save_file>>

HandleEventResultCall(result, draw) ==
    /\ \E r \in {handle_event_result(player, text_log, result, draw)} :
           /\ player' = r.p
           /\ text_log' = r.log
           /\ call' = [op |-> "handle_event_result", ret |-> r.ret, outcome |-> r.outcome,
                       old_fate |-> player.fate, old_inventory |-> player.inventory,
                       old_queued |-> queued_callbacks(text_log),
                       old_streak |-> player.refusal_streak,
                       old_forced |-> player.forced_event,
                       old_hp |-> player.hp,
                       result |-> result,
                       was_active |-> is_battle_active(player),
                       refusing |-> \/ get(result, "refuse", FALSE)
                                    \/ "refuse" \in get(result, "tags", {}),
                       forced_event |-> get(result, "forced_event", None)]
    /\ UNCHANGED <<fate_log, refusals, selection, save_file>>

HandleRefusalCall ==
    /\ \E r \in {handle_refusal(player)} :
           /\ player' = r.p
           /\ call' = [op |-> "handle_refusal", ret |-> r.ret,
                       old_streak |-> player.refusal_streak]
    /\ refusals' = refusals + 1
    /\ UNCHANGED <<fate_log, selection, text_log, save_file>>

ResetRefusalCall ==
    /\ player' = reset_refusal(player)
    /\ call' = [op |-> "reset_refusal", old_streak |-> player.refusal_streak]
    /\ refusals' = 0
    /\ UNCHANGED <<fate_log, selection, text_log, save_file>>

\* main.persist_game_state
SaveGameCall ==
    /\ save_file' = <<save_game(player, text_log)>>
    /\ call' = [op |-> "save_game"]
    /\ UNCHANGED <<player, fate_log, refusals, selection, text_log>>

\* A save file written with consumed_events as the plain list `items`.
LegacySaveCall(items) ==
    /\ save_file' = <<[save_game(player, text_log)
                          EXCEPT !.player.consumed_events = py_list(items)]>>
    /\ call' = [op |-> "legacy_save"]
    /\ UNCHANGED <<player, fate_log, refusals, selection, text_log>>

\* main.load_saved_adventure; `resume_intro` tells whether the stored current
\* event is the briefing whose cinematic has not run, which restarts it.
LoadGameCall(resume_intro) ==
    /\ save_file # <<>>
    /\ \E data \in {load_game(save_file[1])} :
       \E w \in {[p |-> [data.player EXCEPT !.consumed_events = @.ids],
                   log |-> load_state(text_log, data.text_log)]} :
       \E w1 \in {IF resume_intro THEN clear_history(set_typewriter_override(w, <<TRUE>>))
                   ELSE w} :
           /\ player' = w1.p
           /\ text_log' = w1.log
           /\ call' = [op |-> "load_game",
                       stored |-> save_file[1].player.consumed_events.items,
                       converted |-> data.player.consumed_events.type = "set"]
    /\ UNCHANGED <<fate_log, refusals, selection, save_file>>

\* The event manager is handed a player whose consumed_events is the plain list `items`.
EnsureConsumedSetCall(items) ==
    /\ \E consumed \in {_ensure_consumed_set(py_list(items))} :
           /\ player' = [player EXCEPT !.consumed_events = consumed.ids]
           /\ call' = [op |-> "_ensure_consumed_set", stored |-> items,
                       converted |-> consumed.type = "set"]
    /\ UNCHANGED <<fate_log, refusals, selection, text_log, save_file>>

\* main.py: the text of the entered event is written to the log
TextLogAddCall(category) ==
    /\ \E w \in {add([p |-> player, log |-> text_log], category, NoCallback)} :
           player' = w.p /\ text_log' = w.log
    /\ call' = [op |-> "add", old_queued |-> queued_callbacks(text_log)]
    /\ UNCHANGED <<fate_log, refusals, selection, save_file>>

\* any caller of text_log.add(text, category=..., on_show=...)
TextLogAddEntryCall(text, category, on_show) ==
    /\ \E w \in {add_text([p |-> player, log |-> text_log], text, category, on_show)} :
           player' = w.p /\ text_log' = w.log
    /\ call' = [op |-> "add", old_queued |-> queued_callbacks(text_log)]
    /\ UNCHANGED <<fate_log, refusals, selection, save_file>>

\* main.py: the frame loop advances the typewriter
UpdateTypewriterCall(finished) ==
    /\ \E w \in {update_typewriter([p |-> player, log |-> text_log], finished)} :
           player' = w.p /\ text_log' = w.log
    /\ call' = [op |-> "update_typewriter", old_queued |-> queued_callbacks(text_log)]
    /\ UNCHANGED <<fate_log, refusals, selection, save_file>>

\* main.py: the settings toggle
SetTypewriterEnabledCall(enabled) ==
    /\ \E w \in {set_typewriter_enabled([p |-> player, log |-> text_log], enabled)} :
           player' = w.p /\ text_log' = w.log
    /\ call' = [op |-> "set_typewriter_enabled", old_queued |-> queued_callbacks(text_log)]
    /\ UNCHANGED <<fate_log, refusals, selection, save_file>>

\* main.py: cinematics force the typewriter on and release it afterwards
SetTypewriterOverrideCall(enabled) ==
    /\ \E w \in {set_typewriter_override([p |-> player, log |-> text_log], enabled)} :
           player' = w.p /\ text_log' = w.log
    /\ call' = [op |-> "set_typewriter_override", old_queued |-> queued_callbacks(text_log)]
    /\ UNCHANGED <<fate_log, refusals, selection, save_file>>

\* Whether the midband trigger exists, is unconsumed and has its conditions met.
trigger_ready(p) ==
    LET trigger == get_event_by_id(FATE_TRIGGER_MIDBAND_ID)
    IN  /\ trigger # 0
        /\ ~_was_consumed(ALL_EVENTS[trigger], p)
        /\ is_event_condition_met(ALL_EVENTS[trigger], p)

in_midband(p) == MIDBAND_MIN <= p.fate /\ p.fate <= MIDBAND_MAX

GetRandomEventCall(event_types, chosen) ==
    /\ \E r \in {get_random_event(event_types, player, chosen)} :
       \* r0: the same call on the same player with no forced event pending
       \E r0 \in {IF player.forced_event # None /\ r.tier \notin {"intro", "forced"}
                  THEN get_random_event(event_types, [player EXCEPT !.forced_event = None],
                                        chosen)
                  ELSE r} :
       LET log == selection.log
           ids == DOMAIN log \cup ({r.ret} \ {None})
       IN  /\ player' = r.p
           /\ call' = [op |-> "get_random_event", ret |-> r.ret, tier |-> r.tier,
                       event_types |-> event_types,
                       old_forced |-> player.forced_event,
                       trigger_ready |-> trigger_ready(player),
                       intro_pending |-> /\ INTRO_EVENT_ID \in EventIds
                                         /\ MISSION_BRIEF_FLAG \notin player.flags
                                         /\ INTRO_EVENT_ID \notin player.consumed_events,
                       forced_consumed |-> player.forced_event \in player.consumed_events,
                       unforced |-> IF player.forced_event # None /\ r.tier \notin {"intro", "forced"}
                                    THEN [ret |-> r0.ret, same_player |-> r0.p = r.p]
                                    ELSE [ret |-> None, same_player |-> TRUE]]
           /\ selection' =
                [log |-> [id \in ids |->
                            IF id = r.ret
                            THEN [ago |-> 0, times |-> IF id \in DOMAIN log THEN log[id].times + 1 ELSE 1]
                            ELSE [ago |-> log[id].ago + 1, times |-> log[id].times]],
                 band_calls |-> IF in_midband(player) THEN selection.band_calls + 1 ELSE 0,
                 band_reached |-> IF in_midband(player) /\ r.tier \notin {"intro", "forced"}
                                  THEN selection.band_reached + 1 ELSE 0]
    /\ UNCHANGED <<fate_log, refusals, text_log, save_file>>

StartBattleCall(event) ==
    /\ player' = start_battle(player, event)
    /\ call' = [op |-> "start_battle"]
    /\ UNCHANGED <<fate_log, refusals, selection, text_log, save_file>>

PerformBattleActionCall(action, config, draw) ==
    /\ \E r \in {perform_battle_action(player, action, config, draw)} :
           /\ player' = r.p
           /\ call' = [op |-> "perform_battle_action", action |-> action, ret |-> r.ret,
                       was_active |-> is_battle_active(player),
                       old_durability |-> get(player.battle_state, "durability", 0)]
    /\ UNCHANGED <<fate_log, refusals, selection, text_log, save_file>>

\* main.py: the battle state is cleared when the event is left
ClearBattleStateCall ==
    /\ player.battle_state.present
    /\ player' = clear_battle_state(player)
    /\ call' = [op |-> "clear_battle_state"]
    /\ UNCHANGED <<fate_log, refusals, selection, text_log, save_file>>

\* main.py: the walk that follows a click on "forward" ends and the next event is
\* entered (start_new_adventure enters the first event the same way)
EnterEventCall(chosen) ==
    /\ ~game.crashed
    /\ game.sub_state = "wait" /\ game.current_event = None
    /\ ~game.intro_cinematic_active
    /\ ~is_typewriter_animating(text_log)
    /\ \E m \in {enter_event([p |-> player, log |-> text_log, g |-> game], chosen)} :
           /\ player' = m.p /\ text_log' = m.log /\ game' = [m.g EXCEPT !.saved = FALSE]
           /\ call' = [op |-> "enter_event", ret |-> m.g.current_event]
    /\ UNCHANGED <<fate_log, refusals, selection, save_file>>

\* main.py: a click during the intro cinematic shows the next segment, or closes
\* the cinematic after the last one
IntroClickCall ==
    /\ ~game.crashed
    /\ game.intro_cinematic_active
    /\ ~is_typewriter_animating(text_log)
    /\ \E m \in {IF game.intro_segment_index < Len(INTRO_SEGMENTS)
                  THEN advance_intro_segment([p |-> player, log |-> text_log, g |-> game])
                  ELSE exit_intro_cinematic([p |-> player, log |-> text_log, g |-> game])} :
           /\ player' = m.p /\ text_log' = m.log /\ game' = [m.g EXCEPT !.saved = FALSE]
           /\ call' = [op |-> "intro_click"]
    /\ UNCHANGED <<fate_log, refusals, selection, save_file>>

\* main.py: a click on an option of the shown event applies its result
ApplyResultAndAdvanceCall(result, draw) ==
    /\ ~game.crashed
    /\ game.sub_state = "show_event" /\ game.current_event # None
    /\ ~game.intro_cinematic_active
    /\ ~is_typewriter_animating(text_log)
    /\ \E m \in {apply_result_and_advance([p |-> player, log |-> text_log, g |-> game],
                                          result, draw)} :
           /\ player' = m.p /\ text_log' = m.log /\ game' = [m.g EXCEPT !.saved = FALSE]
           /\ call' = [op |-> "apply_result_and_advance", result |-> result, ret |-> m.ret,
                       outcome |-> m.outcome, battle_continues |-> m.battle_continues,
                       was_active |-> is_battle_active(player),
                       old_steps |-> player.steps, old_hp |-> player.hp,
                       old_queued |-> queued_callbacks(text_log)]
    /\ UNCHANGED <<fate_log, refusals, selection, save_file>>

\* main.py: one frame: the typewriter advances, the state is saved, and the event
\* whose result was applied is cleared
FrameCall(finished) ==
    /\ ~game.crashed
    /\ \E w \in {update_typewriter([p |-> player, log |-> text_log, g |-> game], finished)} :
       \E m \in {clear_event(w)} :
           /\ player' = m.p /\ text_log' = m.log /\ game' = [m.g EXCEPT !.saved = (w.g.game_state = "main_screen")]
           /\ save_file' = IF w.g.game_state = "main_screen" THEN <<persist_game_state(w)>>
                           ELSE save_file
           /\ call' = [op |-> "frame", old_queued |-> queued_callbacks(text_log)]
    /\ UNCHANGED <<fate_log, refusals, selection>>

\* main.py: the program was left after a frame (or an exception had ended it)
\* and the adventure is continued from the save file
LoadSavedAdventureCall ==
    /\ save_file # <<>>
    /\ game.saved \/ game.crashed
    /\ \E m \in {load_saved_adventure(save_file[1], text_log)} :
           /\ player' = m.p /\ text_log' = m.log /\ game' = [m.g EXCEPT !.saved = TRUE]
           /\ call' = [op |-> "load_saved_adventure",
                       old_queued |-> queued_callbacks(text_log)]
    /\ UNCHANGED <<fate_log, refusals, selection, save_file>>

\* ------------------------------------------------------------------------
\* Fate system under arbitrary call sequences
\* ------------------------------------------------------------------------
Deltas == {-25, 0, 3, 15}

FateResults ==
    << [effect |-> << <<"fate", 15>>, <<"fate_major", 25>> >>],
       [effect |-> << <<"fate_major", -25>>, <<"fate", -12>>, <<"hp", -30>> >>],
       [effect |-> << <<"fate_bias", 7>> >>, flags_set |-> {MISSION_BRIEF_FLAG}],
       [goto_chapter |-> 2],
       [goto_chapter |-> 3] >>

FateApply ==
    /\ n_calls < MaxCalls /\ n_calls' = n_calls + 1 /\ UNCHANGED game
    /\ \E kind \in Kinds, delta \in Deltas : ApplyFateChangeCall(kind, delta)
FateBias ==
    /\ n_calls < MaxCalls /\ n_calls' = n_calls + 1 /\ UNCHANGED game
    /\ ApplyChapterBiasCall
FatePostUpdate ==
    /\ n_calls < MaxCalls /\ n_calls' = n_calls + 1 /\ UNCHANGED game
    /\ PostEventUpdateCall
FateResult ==
    /\ n_calls < MaxCalls /\ n_calls' = n_calls + 1 /\ UNCHANGED game
    /\ \E i \in 1..Len(FateResults) : HandleEventResultCall(FateResults[i], 0)

NextFate == FateApply \/ FateBias \/ FatePostUpdate \/ FateResult

SpecFate == Init /\ [][NextFate]_vars

\* ------------------------------------------------------------------------
\* Long sequences of apply_fate_change calls
\* ------------------------------------------------------------------------
HistoryInputs ==
    << [kind |-> "normal", delta |-> 15],
       [kind |-> "major", delta |-> -25],
       [kind |-> "bias", delta |-> 0] >>

HistoryApply ==
    /\ n_calls < MaxChanges /\ n_calls' = n_calls + 1 /\ UNCHANGED game
    /\ \E i \in 1..Len(HistoryInputs) : ApplyFateChangeCall(HistoryInputs[i].kind, HistoryInputs[i].delta)

NextHistory == HistoryApply

SpecHistory == Init /\ [][NextHistory]_vars

\* ------------------------------------------------------------------------
\* Battles: any event configuration, any actions, any draws
\* ------------------------------------------------------------------------
MaxDurability == 4
MaxTurns == 4

BattleEvents ==
    {[id |-> "ambush", enemy |-> [name |-> "wolf", hp |-> 5],
      battle_durability |-> d, battle_max_turns |-> t] :
        d \in -1..MaxDurability, t \in 0..MaxTurns}

LegacyBattleEvent == [id |-> "legacy", enemy_name |-> "rat", enemy_hp |-> 2]

Actions == {"attack", "escape", "wait"}

\* perform_battle_action is called with the result of the chosen option as config
BattleConfigs(action) ==
    << [battle_action |-> action],
       [battle_action |-> action, attack_chance |-> 0, escape_chance |-> 0],
       [battle_action |-> action, attack_chance |-> 100, escape_chance |-> 100] >>

Draws == {0, 55, 64, 99}

BattleStart == \E event \in BattleEvents : StartBattleCall(event) /\ UNCHANGED <<n_calls, game>>
BattleStartLegacy == StartBattleCall(LegacyBattleEvent) /\ UNCHANGED <<n_calls, game>>
BattlePerform ==
    /\ \E action \in Actions, i \in 1..3, draw \in Draws :
           PerformBattleActionCall(action, BattleConfigs(action)[i], draw)
    /\ UNCHANGED <<n_calls, game>>
BattleClear == ClearBattleStateCall /\ UNCHANGED <<n_calls, game>>

NextBattle == BattleStart \/ BattleStartLegacy \/ BattlePerform \/ BattleClear

SpecBattle == Init /\ [][NextBattle]_vars

\* ------------------------------------------------------------------------
\* Event selection interleaved with results and progression
\* ------------------------------------------------------------------------
MaxEventCalls == 6

EventTypeSets == <<DEFAULT_EVENT_TYPES, {"normal", "battle"}>>

EventResults ==
    << [flags_set |-> {MISSION_BRIEF_FLAG}],
       [effect |-> << <<"fate", -7>> >>],
       [effect |-> << <<"fate_major", 25>> >>],
       [goto_chapter |-> 4] >>

EventSelect ==
    /\ n_calls < MaxEventCalls /\ n_calls' = n_calls + 1 /\ UNCHANGED game
    /\ \E t \in 1..Len(EventTypeSets) :
           \E chosen \in choices(EventTypeSets[t], player) :
               GetRandomEventCall(EventTypeSets[t], chosen)
EventResult ==
    /\ n_calls < MaxEventCalls /\ n_calls' = n_calls + 1 /\ UNCHANGED game
    /\ \E i \in 1..Len(EventResults) : HandleEventResultCall(EventResults[i], 0)
EventPostUpdate ==
    /\ n_calls < MaxEventCalls /\ n_calls' = n_calls + 1 /\ UNCHANGED game
    /\ PostEventUpdateCall

NextEvents == EventSelect \/ EventResult \/ EventPostUpdate

SpecEvents == Init /\ [][NextEvents]_vars

\* ------------------------------------------------------------------------
\* Results handled while the typewriter queue is in any state
\* ------------------------------------------------------------------------
MaxLogCalls == 3

LogResults ==
    << [inventory_add |-> <<MISSION_POTION_NAME>>, flags_set |-> {MISSION_BRIEF_FLAG}],
       [text |-> "briefing", inventory_add |-> <<MISSION_POTION_NAME>>,
        flags_set |-> {MISSION_BRIEF_FLAG}],
       [flags_set |-> {MISSION_BRIEF_FLAG}],
       [inventory_add |-> <<MISSION_POTION_NAME>>],
       [emit_log |-> <<"line", "line">>] >>

LogResult ==
    /\ n_calls < MaxLogCalls /\ n_calls' = n_calls + 1 /\ UNCHANGED game
    /\ \E i \in 1..Len(LogResults) : HandleEventResultCall(LogResults[i], 0)
LogAdd ==
    /\ n_calls < MaxLogCalls /\ n_calls' = n_calls + 1 /\ UNCHANGED game
    /\ TextLogAddCall("narration")
LogUpdate ==
    /\ \E finished \in BOOLEAN : UpdateTypewriterCall(finished)
    /\ UNCHANGED <<n_calls, game>>
LogToggle ==
    /\ SetTypewriterEnabledCall(~text_log._typewriter_enabled)
    /\ UNCHANGED <<n_calls, game>>
LogOverride ==
    /\ \E enabled \in {<<>>, <<TRUE>>} : SetTypewriterOverrideCall(enabled)
    /\ UNCHANGED <<n_calls, game>>

NextLog == LogResult \/ LogAdd \/ LogUpdate \/ LogToggle \/ LogOverride

SpecLog == Init /\ [][NextLog]_vars

\* ------------------------------------------------------------------------
\* A playthrough up to the ending: progression step by step, fate changes,
\* chapter jumps and the ending query
\* ------------------------------------------------------------------------
MaxPathCalls == 3

PathDeltas == {-20, 3, 20}

PathResults == << [goto_chapter |-> 5], [goto_chapter |-> 2] >>

PathPostUpdate == PostEventUpdateCall /\ UNCHANGED <<n_calls, game>>
PathFateChange ==
    /\ n_calls < MaxPathCalls /\ n_calls' = n_calls + 1 /\ UNCHANGED game
    /\ \E delta \in PathDeltas : ApplyFateChangeCall("major", delta)
PathResult ==
    /\ n_calls < MaxPathCalls /\ n_calls' = n_calls + 1 /\ UNCHANGED game
    /\ \E i \in 1..Len(PathResults) : HandleEventResultCall(PathResults[i], 0)
PathEnding ==
    /\ n_calls < MaxPathCalls /\ n_calls' = n_calls + 1 /\ UNCHANGED game
    /\ MaybePrepareEndingCall

NextPath == PathPostUpdate \/ PathFateChange \/ PathResult \/ PathEnding

SpecPath == Init /\ [][NextPath]_vars

\* ------------------------------------------------------------------------
\* Choices: options that refuse, options that queue a forced event, refusals
\* reported to the fate system, and the selection that follows
\* ------------------------------------------------------------------------
MaxChoiceCalls == 4

ChoiceResults ==
    << [text |-> "no", refuse |-> TRUE],
       [tags |-> {"refuse"}],
       [refuse |-> TRUE, forced_event |-> "patrol"],
       [forced_event |-> "ambush"],
       [battle_action |-> "attack", forced_event_on_end |-> "rumor",
        forced_event_on_defeat |-> "shrine"],
       [effect |-> << <<"fate", 5>> >>] >>

ChoiceRefusal ==
    /\ n_calls < MaxChoiceCalls /\ n_calls' = n_calls + 1 /\ UNCHANGED game
    /\ HandleRefusalCall
ChoiceReset ==
    /\ n_calls < MaxChoiceCalls /\ n_calls' = n_calls + 1 /\ UNCHANGED game
    /\ ResetRefusalCall
ChoiceResult ==
    /\ n_calls < MaxChoiceCalls /\ n_calls' = n_calls + 1 /\ UNCHANGED game
    /\ \E i \in 1..Len(ChoiceResults) : HandleEventResultCall(ChoiceResults[i], 0)
ChoiceSelect ==
    /\ n_calls < MaxChoiceCalls /\ n_calls' = n_calls + 1 /\ UNCHANGED game
    /\ \E chosen \in choices(DEFAULT_EVENT_TYPES, player) :
           GetRandomEventCall(DEFAULT_EVENT_TYPES, chosen)

NextChoices == ChoiceRefusal \/ ChoiceReset \/ ChoiceResult \/ ChoiceSelect

SpecChoices == Init /\ [][NextChoices]_vars

\* ------------------------------------------------------------------------
\* Saving and loading between selections and results
\* ------------------------------------------------------------------------
MaxSaveCalls == 4

\* Lists as an earlier format left them: any order, repeated ids.
LegacyLists ==
    { <<>>, <<"rumor">>, <<"patrol", "ambush", "patrol">>,
      <<"shrine", "mission_briefing", "shrine", "ambush">> }

SaveResults ==
    << [flags_set |-> {MISSION_BRIEF_FLAG}],
       [text |-> "onward", effect |-> << <<"fate", 5>> >>] >>

SaveSelect ==
    /\ n_calls < MaxSaveCalls /\ n_calls' = n_calls + 1 /\ UNCHANGED game
    /\ \E chosen \in choices(DEFAULT_EVENT_TYPES, player) :
           GetRandomEventCall(DEFAULT_EVENT_TYPES, chosen)
SaveResult ==
    /\ n_calls < MaxSaveCalls /\ n_calls' = n_calls + 1 /\ UNCHANGED game
    /\ \E i \in 1..Len(SaveResults) : HandleEventResultCall(SaveResults[i], 0)
SavePersist == SaveGameCall /\ UNCHANGED <<n_calls, game>>
SaveLegacy ==
    /\ n_calls < MaxSaveCalls /\ n_calls' = n_calls + 1 /\ UNCHANGED game
    /\ \E items \in LegacyLists : LegacySaveCall(items)
SaveLoad ==
    /\ n_calls < MaxSaveCalls /\ n_calls' = n_calls + 1 /\ UNCHANGED game
    /\ \E resume_intro \in BOOLEAN : LoadGameCall(resume_intro)
SaveEnsure ==
    /\ n_calls < MaxSaveCalls /\ n_calls' = n_calls + 1 /\ UNCHANGED game
    /\ \E items \in LegacyLists : EnsureConsumedSetCall(items)

NextSave == SaveSelect \/ SaveResult \/ SavePersist \/ SaveLegacy \/ SaveLoad \/ SaveEnsure

SpecSave == Init /\ [][NextSave]_vars

\* ------------------------------------------------------------------------
\* The game loop: events are entered, options chosen, frames drawn and saved,
\* and the adventure is continued from the save file at any moment
\* ------------------------------------------------------------------------
MaxLoopCalls == 7

\* The results of the options an event offers (data/story_data.json).
LoopResults ==
    << [text |-> "onward", inventory_add |-> <<"amulet">>],
       [battle_action |-> "attack", victory_effect |-> << <<"hp", 1>> >>,
        defeat_effect |-> << <<"hp", -5>> >>, forced_event_on_defeat |-> "shrine"],
       [battle_action |-> "escape", escape_effect |-> << <<"hp", -1>> >>,
        defeat_effect |-> << <<"hp", -5>> >>],
       [text |-> "the end", end_game |-> TRUE] >>

LoopDraws == {0, 99}

LoopWalk ==
    /\ n_calls < MaxLoopCalls /\ n_calls' = n_calls + 1
    /\ \E chosen \in choices(DEFAULT_EVENT_TYPES, player) : EnterEventCall(chosen)
LoopIntro == IntroClickCall /\ UNCHANGED n_calls
LoopChoose ==
    /\ n_calls < MaxLoopCalls /\ n_calls' = n_calls + 1
    /\ \E i \in 1..Len(LoopResults), draw \in LoopDraws :
           ApplyResultAndAdvanceCall(LoopResults[i], draw)
LoopFrame ==
    /\ \E finished \in BOOLEAN : FrameCall(finished)
    /\ UNCHANGED n_calls
LoopLoad ==
    /\ n_calls < MaxLoopCalls /\ n_calls' = n_calls + 1
    /\ LoadSavedAdventureCall

NextLoop == LoopWalk \/ LoopIntro \/ LoopChoose \/ LoopFrame \/ LoopLoad

SpecLoop == Init /\ [][NextLoop]_vars

\* The frame loop keeps running and every text is typed out in the end.
LoopFrameFinished == FrameCall(TRUE) /\ UNCHANGED n_calls

SpecLoopLive == SpecLoop /\ WF_vars(LoopFrameFinished)

\* ------------------------------------------------------------------------
\* Battle options: results that carry a battle action, its outcome effects and
\* its follow-up events, handled with and without a battle in progress
\* ------------------------------------------------------------------------
MaxOutcomeCalls == 3

OutcomeEvents ==
    { [id |-> "ambush", enemy |-> [name |-> "wolf", hp |-> 5],
       battle_durability |-> d, battle_max_turns |-> 2] : d \in 1..2 }

\* The follow-up ids an option may declare, None for a key it does not declare.
FollowUps == {None, "patrol"}

\* Every option declares the three outcome effects, told apart by the hp they change.
OutcomeResults ==
    { [key \in {"battle_action", "victory_effect", "escape_effect", "defeat_effect"}
              \cup {k \in {"forced_event", "forced_event_on_end", "forced_event_on_defeat"} :
                       follow[k] # None} |->
          CASE key = "battle_action" -> action
            [] key = "victory_effect" -> << <<"hp", 1>> >>
            [] key = "escape_effect" -> << <<"hp", -1>> >>
            [] key = "defeat_effect" -> << <<"hp", -5>> >>
            [] key = "forced_event" -> "patrol"
            [] key = "forced_event_on_end" -> "rumor"
            [] key = "forced_event_on_defeat" -> "shrine"] :
        action \in Actions,
        follow \in [{"forced_event", "forced_event_on_end", "forced_event_on_defeat"}
                       -> FollowUps] }

OutcomeStart ==
    /\ \E event \in OutcomeEvents : StartBattleCall(event)
    /\ UNCHANGED <<n_calls, game>>
OutcomeResult ==
    /\ n_calls < MaxOutcomeCalls /\ n_calls' = n_calls + 1 /\ UNCHANGED game
    /\ \E result \in OutcomeResults, draw \in LoopDraws : HandleEventResultCall(result, draw)
OutcomeClear == ClearBattleStateCall /\ UNCHANGED <<n_calls, game>>

NextOutcome == OutcomeStart \/ OutcomeResult \/ OutcomeClear

SpecOutcome == Init /\ [][NextOutcome]_vars

\* ------------------------------------------------------------------------
\* The log queue: lines of any kind are added while the typewriter runs, is
\* switched and is overridden.  n_calls counts the lines added; the text of a
\* line is its number and the kind of callback it carries.
\* ------------------------------------------------------------------------
MaxQueueCalls == 4

QueueCategories == {"narration", "system"}

QueueCallbackKinds == {"none", "append", "raise"}

QueueAdd ==
    /\ n_calls < MaxQueueCalls
    /\ \E category \in QueueCategories, kind \in QueueCallbackKinds :
           TextLogAddEntryCall([line |-> n_calls + 1, on_show |-> kind], category,
                               [kind |-> kind, item |-> n_calls + 1])
    /\ n_calls' = n_calls + 1 /\ UNCHANGED game

\* a dev line while the dev log is off
QueueAddDev == TextLogAddCall("dev") /\ UNCHANGED <<n_calls, game>>

QueueUpdate == (\E finished \in BOOLEAN : UpdateTypewriterCall(finished)) /\ UNCHANGED <<n_calls, game>>

QueueToggle == (\E enabled \in BOOLEAN : SetTypewriterEnabledCall(enabled)) /\ UNCHANGED <<n_calls, game>>

QueueOverride ==
    /\ \E enabled \in {<<>>, <<TRUE>>, <<FALSE>>} : SetTypewriterOverrideCall(enabled)
    /\ UNCHANGED <<n_calls, game>>

NextQueue == QueueAdd \/ QueueAddDev \/ QueueUpdate \/ QueueToggle \/ QueueOverride

SpecQueue == Init /\ [][NextQueue]_vars

\* ------------------------------------------------------------------------
\* Properties of the fate system
\* ------------------------------------------------------------------------

\* C1: starting from fate in [0,100], after any sequence of apply_fate_change,
\* apply_chapter_bias, post_event_update and handle_event_result effect payloads,
\* fate is in [0,100] in every reached state.
C1_FateInRange == player.fate >= 0 /\ player.fate <= 100

\* A result payload has driven fate onto the lower bound from above.
C1_Witness ==
    /\ call.op = "handle_event_result"
    /\ call.old_fate > 0
    /\ player.fate = 0

\* C2: for old fate f, kind with limit L (10/20/5) and delta d, apply_fate_change
\* sets fate to clamp(f + clamp(d, -L, L), 0, 100), so one call moves fate by at
\* most L; a normal change of +15 at fate 50 gives fate 60 and fate_history [60].
C2_ApplyFateChange ==
    call.op = "apply_fate_change" =>
        LET f == call.old_fate
            d == call.delta
            L == IF call.kind = "normal" THEN 10 ELSE IF call.kind = "major" THEN 20 ELSE 5
            dl == IF d > L THEN L ELSE IF d < -L THEN -L ELSE d
            expected == IF f + dl > 100 THEN 100 ELSE IF f + dl < 0 THEN 0 ELSE f + dl
        IN  /\ player.fate = expected
            /\ player.fate - f <= L
            /\ f - player.fate <= L
            /\ (f = 50 /\ call.kind = "normal" /\ d = 15 /\ call.old_history = <<>>
                    => player.fate = 60 /\ player.fate_history = <<60>>)

\* The scenario of the claim: a normal change of +15 on the new player.
C2_Witness ==
    /\ call.op = "apply_fate_change"
    /\ call.kind = "normal" /\ call.delta = 15 /\ call.old_fate = 50
    /\ call.old_history = <<>>
    /\ player.fate_history = <<60>>

LastN(s, n) == SubSeq(s, Len(s) - n + 1, Len(s))

\* C3: fate_history holds at most 10 entries and equals the last min(n,10)
\* post-change fate values in order of occurrence; a change whose limited delta
\* is 0 adds no entry.
C3_HistoryIsLastTen ==
    /\ Len(player.fate_history) <= 10
    /\ player.fate_history = LastN(fate_log, IF Len(fate_log) < 10 THEN Len(fate_log) ELSE 10)
    /\ (call.op = "apply_fate_change" /\ call.delta = 0
            => player.fate_history = call.old_history)

\* More than ten changes have happened, so the oldest entry has been dropped.
C3_Witness ==
    /\ Len(fate_log) > 10
    /\ Len(player.fate_history) = 10
    /\ player.fate_history[10] = player.fate

\* ------------------------------------------------------------------------
\* Properties of the event manager
\* ------------------------------------------------------------------------
event_of(id) == ALL_EVENTS[get_event_by_id(id)]
declared_cooldown(id) == get(event_of(id), "cooldown", 0)
declares_once(id) == get(event_of(id), "once", FALSE)

\* C4 as stated: an event returned with declared cooldown N > 0 is blocked by its
\* cooldown entry in each of the N following get_random_event calls (cooldown 1
\* blocks exactly one following call): while 1..N calls have been made since it
\* was returned, the latest of them found its entry above 0.
C4_CooldownBlocksNCalls ==
    \A id \in DOMAIN selection.log :
        (declared_cooldown(id) > 0
            /\ selection.log[id].ago >= 1
            /\ selection.log[id].ago <= declared_cooldown(id))
        => get(player.event_cooldowns, id, 0) > 0

\* C5: once an event with once=true has been returned, its id stays in
\* consumed_events and no later get_random_event call returns it again.
C5_OnceNeverAgain ==
    \A id \in DOMAIN selection.log :
        declares_once(id) => /\ id \in player.consumed_events
                             /\ selection.log[id].times = 1

\* A forced_event named a once event that had been returned before, and the call
\* returned something else.
C5_Witness ==
    /\ call.op = "get_random_event"
    /\ call.old_forced \in DOMAIN selection.log
    /\ declares_once(call.old_forced)
    /\ call.ret # call.old_forced
    /\ selection.log[call.old_forced].ago >= 1

\* C6 as stated: selecting an event adds its id to consumed_events only if the
\* event declares once=true.
C6_ConsumedOnlyIfOnce ==
    \A id \in player.consumed_events : declares_once(id)

\* C7 as stated: if fate is within [40,60] at each of 3 consecutive
\* get_random_event calls and the trigger event exists, is unconsumed and has its
\* conditions met, the third call returns the trigger event with midband_counter 0.
C7_TriggerOnThirdBandCall ==
    (call.op = "get_random_event" /\ selection.band_calls >= MIDBAND_LIMIT /\ call.trigger_ready)
        => call.ret = FATE_TRIGGER_MIDBAND_ID /\ player.midband_counter = 0

\* C7 (amended): the same, for 3 consecutive calls none of which returns the intro
\* briefing or a forced event (those return before the midband step).
C7_TriggerOnThirdReachedCall ==
    (call.op = "get_random_event" /\ selection.band_reached >= MIDBAND_LIMIT /\ call.trigger_ready)
        => call.ret = FATE_TRIGGER_MIDBAND_ID /\ player.midband_counter = 0

\* The third midband call in a row returned the trigger event.
C7_Witness ==
    /\ call.op = "get_random_event"
    /\ selection.band_reached = MIDBAND_LIMIT
    /\ call.trigger_ready
    /\ call.ret = FATE_TRIGGER_MIDBAND_ID
    /\ call.tier = "midband"

\* ------------------------------------------------------------------------
\* Properties of the battle system
\* ------------------------------------------------------------------------
battle == player.battle_state

\* Only attack actions have been taken in the current battle, and at least one.
OnlyAttacks == battle.present /\ battle.turn_count > 0 /\ battle.turn_count = battle.attack_attempts
\* Only escape actions have been taken in the current battle, and at least one.
OnlyEscapes == battle.present /\ battle.turn_count > 0 /\ battle.turn_count = battle.escape_attempts

\* C8 as stated: for any sequence of attack actions and any draws the battle ends
\* in victory no later than the max_turns-th attack attempt.
C8_VictoryByMaxTurns ==
    OnlyAttacks =>
        /\ (~battle.active => battle.victory)
        /\ (battle.attack_attempts >= battle.max_turns => battle.victory)

\* C8 (amended): for any sequence of attack actions and any draws the battle has
\* ended no later than the max_turns-th attack attempt; it ends in victory when
\* the durability is at least max_turns, otherwise in victory or in defeat.
C8_EndsByMaxTurns ==
    OnlyAttacks =>
        /\ battle.attack_attempts <= battle.max_turns
        /\ (battle.attack_attempts >= battle.max_turns => ~battle.active)
        /\ (~battle.active => battle.victory \/ battle.defeat)
        /\ (~battle.active /\ battle.max_durability >= battle.max_turns => battle.victory)

\* Every draw failed and the last allowed attack was forced to succeed.
C8_Witness ==
    /\ OnlyAttacks
    /\ battle.max_turns = 3 /\ battle.max_durability = 3
    /\ battle.attack_attempts = 3
    /\ battle.victory /\ ~battle.active

\* C9 as stated: for any sequence of escape actions and any draws the battle ends
\* with escaped=true no later than the max_turns-th escape attempt.
C9_EscapeByMaxTurns ==
    OnlyEscapes =>
        /\ (~battle.active => battle.escaped)
        /\ (battle.escape_attempts >= battle.max_turns => battle.escaped)

\* C9 (amended): for any sequence of escape actions and any draws the battle has
\* ended no later than the max_turns-th escape attempt; it ends with escaped=true
\* when the durability is at least max_turns, otherwise escaped or in defeat.
C9_EndsByMaxTurns ==
    OnlyEscapes =>
        /\ battle.escape_attempts <= battle.max_turns
        /\ (battle.escape_attempts >= battle.max_turns => ~battle.active)
        /\ (~battle.active => battle.escaped \/ battle.defeat)
        /\ (~battle.active /\ battle.max_durability >= battle.max_turns => battle.escaped)

\* Every draw failed and the last allowed escape was forced to succeed.
C9_Witness ==
    /\ OnlyEscapes
    /\ battle.max_turns = 3 /\ battle.max_durability = 3
    /\ battle.escape_attempts = 3
    /\ battle.escaped /\ ~battle.active

\* C10: from start_battle onward the stored durability is in [0, max_durability],
\* and so is the remaining_durability returned by every perform_battle_action.
C10_DurabilityInRange ==
    battle.present =>
        /\ 0 <= battle.durability /\ battle.durability <= battle.max_durability
        /\ (call.op = "perform_battle_action" /\ call.was_active
                => /\ 0 <= call.ret.remaining_durability
                   /\ call.ret.remaining_durability <= battle.max_durability)

\* A failed action has lowered the durability of a battle that goes on.
C10_Witness ==
    /\ battle.present /\ battle.active
    /\ call.op = "perform_battle_action"
    /\ call.ret.durability_loss = 1
    /\ call.ret.remaining_durability = 1
    /\ battle.max_durability = MaxDurability

\* C11: in an active battle, a turn whose action fails and brings durability to 0
\* returns defeat=true and battle_over=true in that same call; no call returns
\* with the battle still active and durability 0.
C11_DefeatOnSameTurn ==
    /\ (call.op = "perform_battle_action" /\ call.was_active
            /\ call.ret.durability_loss = 1 /\ call.old_durability - 1 <= 0)
        => (call.ret.defeat /\ call.ret.battle_over /\ battle.defeat /\ ~battle.active)
    /\ (call.op = "perform_battle_action" /\ battle.present /\ battle.active)
        => (battle.durability > 0 /\ call.ret.remaining_durability > 0)

\* A hesitation spent the last durability point and the call reported the defeat.
C11_Witness ==
    /\ call.op = "perform_battle_action" /\ call.was_active
    /\ call.action = "wait"
    /\ call.old_durability = 1
    /\ call.ret.durability_loss = 1
    /\ call.ret.defeat /\ call.ret.battle_over

\* C12: whenever a perform_battle_action call ends the battle (victory, escape or
\* defeat), on return battle_state.active is false and battle_state.durability
\* equals max_durability; with durability 3 and max_turns 3, two failed attacks
\* leave durability 1 and the third attack yields victory with durability 3.
C12_FullDurabilityAtEnd ==
    /\ (call.op = "perform_battle_action" /\ call.was_active /\ call.ret.battle_over)
        => /\ call.ret.victory \/ call.ret.escaped \/ call.ret.defeat
           /\ ~battle.active
           /\ battle.durability = battle.max_durability
           /\ call.ret.remaining_durability = battle.max_durability
    /\ (OnlyAttacks /\ battle.max_turns = 3 /\ battle.max_durability = 3)
        => /\ (battle.attack_attempts = 2 /\ battle.active => battle.durability = 1)
           /\ (battle.attack_attempts = 3 => battle.victory /\ battle.durability = 3)

\* The scenario of the claim: the third attack won with one durability point left.
C12_Witness ==
    /\ call.op = "perform_battle_action" /\ call.was_active
    /\ OnlyAttacks /\ battle.max_turns = 3 /\ battle.max_durability = 3
    /\ battle.attack_attempts = 3
    /\ call.old_durability = 1
    /\ call.ret.victory /\ ~battle.active /\ battle.durability = 3

\* ------------------------------------------------------------------------
\* Properties of the result handler and the text log
\* ------------------------------------------------------------------------
potion_copies ==
    Cardinality({i \in 1..Len(player.inventory) : player.inventory[i] = MISSION_POTION_NAME})

\* C13: handling a result with inventory_add of the starter potion together with
\* flags_set [mission_briefed] on a player with empty inventory leaves exactly one
\* copy of the potion in the inventory once all queued log callbacks have fired,
\* whether each callback fires immediately or deferred by the typewriter queue.
C13_ExactlyOnePotion ==
    /\ potion_copies <= 1
    /\ (MISSION_BRIEF_FLAG \in player.flags /\ queued_callbacks(text_log) = <<>>)
        => potion_copies = 1
    /\ (call.op = "handle_event_result" /\ call.old_inventory = <<>>
            /\ MISSION_BRIEF_FLAG \in player.flags /\ player.inventory = <<>>)
        => contains(queued_callbacks(text_log), "gain")
               \/ contains(queued_callbacks(text_log), "brief_reward")

\* Both callbacks were deferred behind a typewriter entry and have now fired.
C13_Witness ==
    /\ call.op = "update_typewriter"
    /\ call.old_queued = <<"gain", "brief_reward">>
    /\ queued_callbacks(text_log) = <<>>
    /\ MISSION_BRIEF_FLAG \in player.flags
    /\ player.inventory = <<MISSION_POTION_NAME>>

\* ------------------------------------------------------------------------
\* Properties of the selection tiers
\* ------------------------------------------------------------------------

\* C14: a get_random_event call that reads a non-empty forced_event (it got past
\* the intro tier) leaves forced_event null on return, whether or not the forced
\* event is found or already consumed; a forced return is always the id that was
\* pending, so the same id is not returned again unless it is queued again.
C14_ForcedEventCleared ==
    call.op = "get_random_event" =>
        /\ (call.tier # "intro" => player.forced_event = None)
        /\ (call.tier = "forced" => call.old_forced # None /\ call.ret = call.old_forced)

\* A pending id that is not in the catalog was read and dropped.
C14_Witness ==
    /\ call.op = "get_random_event"
    /\ call.old_forced # None /\ call.old_forced \notin EventIds
    /\ call.tier # "intro"
    /\ player.forced_event = None

\* C15: when forced_event names an id absent from the catalog or an event already
\* consumed, get_random_event goes on with the midband check and the weighted
\* selection and returns what the same call returns with no forced event pending.
C15_UnusableForcedFallsThrough ==
    (call.op = "get_random_event" /\ call.tier # "intro" /\ call.old_forced # None
        /\ (call.old_forced \notin EventIds \/ call.forced_consumed))
    => /\ call.tier \in {"midband", "weighted", "none"}
       /\ call.ret = call.unforced.ret
       /\ call.unforced.same_player

\* A consumed event was forced and the weighted tier returned another event.
C15_Witness ==
    /\ call.op = "get_random_event"
    /\ call.old_forced \in EventIds /\ call.forced_consumed
    /\ call.tier = "weighted"
    /\ call.ret = call.unforced.ret /\ call.ret # call.old_forced

\* C16: while the intro briefing exists, the mission_briefed flag is not set and
\* the intro is not consumed, every get_random_event call returns the intro
\* whatever the allowed types, its weight, its conditions or a pending
\* forced_event (which stays pending), and marks it consumed; the first call of a
\* new game returns it and it is returned at most once.
C16_IntroFirst ==
    /\ (call.op = "get_random_event" /\ call.intro_pending)
        => /\ call.ret = INTRO_EVENT_ID
           /\ INTRO_EVENT_ID \in player.consumed_events
           /\ player.forced_event = call.old_forced
    /\ (call.op = "get_random_event" /\ n_calls = 1) => call.ret = INTRO_EVENT_ID
    /\ INTRO_EVENT_ID \in DOMAIN selection.log => selection.log[INTRO_EVENT_ID].times = 1

\* The intro was returned in chapter 4, where a lock event was pending.
C16_Witness ==
    /\ call.op = "get_random_event"
    /\ call.intro_pending
    /\ call.old_forced # None
    /\ call.ret = INTRO_EVENT_ID
    /\ player.chapter >= 4

\* C17: when no event passes the candidate filter (and no intro, forced or
\* midband-trigger event applies), get_random_event returns None and adds
\* nothing to consumed_events or event_cooldowns.
C17_NoEventAddsNothing ==
    [][(call'.op = "get_random_event" /\ call'.tier = "none")
        => /\ call'.ret = None
           /\ player'.consumed_events = player.consumed_events
           /\ \A id \in DOMAIN player'.event_cooldowns :
                  /\ id \in DOMAIN player.event_cooldowns
                  /\ player'.event_cooldowns[id] < player.event_cooldowns[id]]_vars

\* A call found every allowed event consumed or cooling down and returned None.
C17_Witness ==
    /\ call.op = "get_random_event"
    /\ call.tier = "none" /\ call.ret = None
    /\ player.consumed_events # {}

\* C18: every get_random_event call lowers every entry of event_cooldowns by 1
\* and removes the entries that reach 0 before anything else, so no entry is
\* ever zero or negative afterwards, and an entry's value never increases except
\* when its event is selected.
C18_CooldownTick ==
    [][LET old == player.event_cooldowns
           new == player'.event_cooldowns
           selected(id) == call'.op = "get_random_event" /\ call'.ret = id
       IN  /\ \A id \in DOMAIN new : new[id] > 0
           /\ \A id \in DOMAIN new :
                  selected(id) \/ (id \in DOMAIN old /\ new[id] <= old[id])
           /\ call'.op = "get_random_event" =>
                  \A id \in DOMAIN old :
                      \/ selected(id) /\ declared_cooldown(id) > 0
                             /\ new[id] = declared_cooldown(id)
                      \/ old[id] - 1 > 0 /\ id \in DOMAIN new /\ new[id] = old[id] - 1
                      \/ old[id] - 1 <= 0 /\ id \notin DOMAIN new]_vars

\* A call that returned another event lowered the entry of the ambush from 2 to 1.
C18_Witness ==
    /\ call.op = "get_random_event"
    /\ call.ret # "ambush"
    /\ get(player.event_cooldowns, "ambush", 0) = 1

\* ------------------------------------------------------------------------
\* Properties of the path lock and the ending
\* ------------------------------------------------------------------------
Bands == {"high", "mid", "low"}
LockIds == {LOCK_EVENTS[band] : band \in Bands}
EndingIds == {ENDING_EVENTS[band] : band \in Bands}

\* C19: over any sequence of post_event_update calls and fate changes a lock event
\* id is returned at most once, by the first call that ends with chapter >= 4;
\* from then on fate_path_locked stays true and fate_locked_band keeps the band
\* fate had at that moment even if fate later moves to another band.
C19_LockOnce ==
    [][LET update == call'.op = "post_event_update"
           returned == update /\ call'.ret \in LockIds
       IN  /\ returned => /\ ~player.fate_path_locked
                           /\ player'.fate_path_locked
                           /\ player'.fate_locked_band = determine_band(player'.fate)
                           /\ call'.ret = LOCK_EVENTS[player'.fate_locked_band]
           /\ (update /\ ~player.fate_path_locked) => (returned <=> player'.chapter >= 4)
           /\ (~update /\ ~player.fate_path_locked) => ~player'.fate_path_locked
           /\ player.fate_path_locked => /\ player'.fate_path_locked
                                         /\ player'.fate_locked_band = player.fate_locked_band]_vars

\* The path was locked in the mid band on reaching chapter 4 by steps, and a later
\* fate change has moved fate into the high band.
C19_Witness ==
    /\ call.op = "apply_fate_change"
    /\ player.steps >= CHAPTER_THRESHOLDS[4]
    /\ player.fate_path_locked /\ player.fate_locked_band = "mid"
    /\ determine_band(player.fate) = "high"

\* C20: maybe_prepare_ending returns an ending event id at most once, only while
\* chapter >= 5 and ending_prepared is false, and the id is the one for
\* fate_locked_band when a band is locked, otherwise the one for the band of the
\* current fate.
C20_EndingOnce ==
    [][LET direct == call'.op = "maybe_prepare_ending"
           update == call'.op = "post_event_update"
           returned == (direct \/ update) /\ call'.ret \in EndingIds
           band == IF player.fate_locked_band # None THEN player.fate_locked_band
                   ELSE determine_band(player.fate)
       IN  /\ returned => /\ ~player.ending_prepared /\ player'.ending_prepared
                           /\ player'.chapter >= 5
           /\ direct => IF player.chapter >= 5 /\ ~player.ending_prepared
                         THEN call'.ret = ENDING_EVENTS[band]
                         ELSE call'.ret = None /\ player' = player
           /\ (update /\ returned) => /\ player.fate_locked_band # None
                                       /\ call'.ret = ENDING_EVENTS[player.fate_locked_band]
           /\ player.ending_prepared => player'.ending_prepared]_vars

\* The ending of the locked mid band was returned while fate was in the high band.
C20_Witness ==
    /\ call.op = "maybe_prepare_ending"
    /\ call.ret = ENDING_EVENTS["mid"]
    /\ player.fate_locked_band = "mid"
    /\ determine_band(player.fate) = "high"
    /\ player.ending_prepared

\* ------------------------------------------------------------------------
\* Properties of the chapter progression
\* ------------------------------------------------------------------------
\* The largest chapter whose step threshold has been reached, 1 when there is none.
chapter_for(steps) ==
    IF steps >= 12 THEN 5 ELSE IF steps >= 9 THEN 4 ELSE IF steps >= 6 THEN 3
    ELSE IF steps >= 3 THEN 2 ELSE 1

\* C21: advance_chapter_if_needed (run by every post_event_update on the steps
\* just counted) never lowers chapter: afterwards chapter is the larger of the
\* previous chapter and the largest chapter in 2..5 whose step threshold
\* (3, 6, 9, 12) is <= steps, reached in a single jump.
C21_ChapterJumpsToHighest ==
    call.op = "post_event_update" =>
        /\ player.chapter >= call.old_chapter
        /\ player.chapter = max(call.old_chapter, chapter_for(player.steps))

\* A result had sent the player back to chapter 2 after nine steps; the next
\* update went to chapter 4 in one jump.
C21_Witness ==
    /\ call.op = "post_event_update"
    /\ call.old_chapter = 2
    /\ player.steps >= 9 /\ player.steps < 12
    /\ player.chapter = 4

\* ------------------------------------------------------------------------
\* Properties of the refusal streak
\* ------------------------------------------------------------------------

\* C22: over any interleaving of handle_refusal and reset_refusal calls starting
\* from streak 0, handle_refusal returns the self-doubt event id exactly on every
\* second consecutive refusal and resets the streak then, so refusal_streak is 0
\* or 1 after every call; reset_refusal always leaves it 0.
C22_SelfDoubtEverySecondRefusal ==
    /\ player.refusal_streak \in {0, 1}
    /\ player.refusal_streak = refusals % 2
    /\ call.op = "handle_refusal" =>
           /\ (call.ret = SELF_DOUBT_EVENT_ID <=> refusals % 2 = 0)
           /\ (call.ret # SELF_DOUBT_EVENT_ID => call.ret = None)
    /\ call.op = "reset_refusal" => player.refusal_streak = 0

\* The fourth refusal in a row returned the self-doubt event, as the second had.
C22_Witness ==
    /\ call.op = "handle_refusal"
    /\ refusals = 4
    /\ call.ret = SELF_DOUBT_EVENT_ID
    /\ player.refusal_streak = 0

\* C23 as stated: handle_event_result tracks refusals: a result with refuse truthy
\* or with "refuse" in its tags increments refusal_streak through handle_refusal,
\* so the second refusing result in a row yields the self-doubt forced event
\* (unless the result itself names a forced event), and any non-refusing result
\* resets refusal_streak to 0.
C23_HandlerTracksRefusals ==
    call.op = "handle_event_result" =>
        IF call.refusing
        THEN IF call.old_streak + 1 >= 2
             THEN /\ player.refusal_streak = 0
                  /\ (call.forced_event = None => call.ret = SELF_DOUBT_EVENT_ID)
             ELSE player.refusal_streak = call.old_streak + 1
        ELSE player.refusal_streak = 0

\* ------------------------------------------------------------------------
\* Properties of the forced event queued by a result
\* ------------------------------------------------------------------------

\* C24 as stated: when handle_event_result determines a forced event id X (from
\* forced_event, forced_event_on_end or forced_event_on_defeat), player.forced_event
\* equals X after the call, so that the next get_random_event returns event X.
C24_ForcedEventStored ==
    (call.op = "handle_event_result" /\ call.ret # None) => player.forced_event = call.ret

\* ------------------------------------------------------------------------
\* Properties of a battle action with no battle going on
\* ------------------------------------------------------------------------

\* C25: perform_battle_action called when battle_state is absent or not active
\* returns a result with battle_over=true and leaves every field of the player
\* and of battle_state unchanged (turn_count, attempts, durability and outcome
\* flags included).
C25_NoBattleNoChange ==
    [][(call'.op = "perform_battle_action"
            /\ ~(player.battle_state.present /\ player.battle_state.active))
        => /\ player' = player
           /\ call'.ret.battle_over
           /\ call'.ret.player_damage = 0 /\ call'.ret.enemy_damage = 0
           /\ DOMAIN call'.ret = {"battle_over", "player_damage", "enemy_damage"}]_vars

\* An attack was ordered after the battle had been won: the record of the won
\* battle is as the winning turn left it.
C25_Witness ==
    /\ call.op = "perform_battle_action" /\ ~call.was_active
    /\ call.action = "attack"
    /\ call.ret = NoBattleResult
    /\ battle.present /\ ~battle.active /\ battle.victory
    /\ battle.turn_count = 1 /\ battle.attack_attempts = 1

\* ------------------------------------------------------------------------
\* Properties of the save file
\* ------------------------------------------------------------------------
members(items) == {items[i] : i \in 1..Len(items)}

\* C26: for every set S of event ids, deserializing the serialized player gives
\* consumed_events equal to S as a set (the stored list has no duplicates and its
\* order does not matter), and a consumed_events that is a plain list is
\* converted to the set of its elements on load and on first use by the event
\* manager.
C26_ConsumedRoundTrip ==
    /\ \A S \in SUBSET EventIds :
           LET stored == _to_json_safe(py_set(S))
           IN  /\ stored.type = "list"
               /\ Len(stored.items) = Cardinality(S)
               /\ set(stored) = py_set(S)
    /\ LET data == _deserialize_player(_serialize_player(player))
       IN  /\ data.consumed_events = py_set(player.consumed_events)
           /\ data.consumed_events.type = "set"
    /\ call.op \in {"load_game", "_ensure_consumed_set"} =>
           /\ call.converted
           /\ player.consumed_events = members(call.stored)

\* A file that listed the consumed ids unordered and twice over has been loaded.
C26_Witness ==
    /\ call.op = "load_game"
    /\ call.stored = <<"shrine", "mission_briefing", "shrine", "ambush">>
    /\ player.consumed_events = {"ambush", "mission_briefing", "shrine"}

\* ------------------------------------------------------------------------
\* Properties of the weighted selection
\* ------------------------------------------------------------------------

\* C27: every event returned by the weighted-selection tier of get_random_event
\* has its type in the allowed types, has no cooldown entry greater than 0 when
\* the candidates are collected (after the tick of this call), is not in
\* consumed_events, satisfies is_event_condition_met for the current player and
\* has weight > 0; an event with weight 0 is never returned by this tier.
C27_WeightedTierFilter ==
    [][(call'.op = "get_random_event" /\ call'.tier = "weighted")
        => /\ call'.ret \in EventIds
           /\ LET event == event_of(call'.ret)
              IN  /\ event.type \in call'.event_types
                  /\ get(player.event_cooldowns, event.id, 0) - 1 <= 0
                  /\ event.id \notin player.consumed_events
                  /\ is_event_condition_met(event, player)
                  /\ is_event_condition_met(event, player')
                  /\ get(event, "weight", 1) > 0]_vars

\* The weighted tier returned the rumor, which is gated by chapter and flag, while
\* the briefing (weight 0) and the shrine (weight 0) were left out.
C27_Witness ==
    /\ call.op = "get_random_event" /\ call.tier = "weighted"
    /\ call.ret = "rumor"
    /\ player.chapter >= 2 /\ MISSION_BRIEF_FLAG \in player.flags
    /\ "shrine" \notin player.consumed_events

\* ------------------------------------------------------------------------
\* Properties of the automatic chapter bias
\* ------------------------------------------------------------------------

\* C28: the fate-changed marker has per-event scope: if any fate change happened
\* since the previous post_event_update, the next post_event_update applies no
\* chapter bias (it leaves fate and fate_history unchanged), and on return from
\* every post_event_update, on the lock path and on the normal path, the marker
\* is false, so a change in one event never suppresses the bias in a later one.
C28_MarkerPerEvent ==
    [][/\ call'.op = "apply_fate_change" =>
              (player'._fate_changed_in_event
                   <=> (player._fate_changed_in_event \/ call'.delta # 0))
       /\ call'.op = "post_event_update" =>
              /\ ~player'._fate_changed_in_event
              /\ player._fate_changed_in_event =>
                     /\ player'.fate = player.fate
                     /\ player'.fate_history = player.fate_history
              /\ (~player._fate_changed_in_event /\ player'.chapter = 2
                      /\ determine_band(player.fate) # "mid")
                  => /\ player'.fate # player.fate
                     /\ player'.fate_history # player.fate_history]_vars

\* In chapter 2 a major choice had put fate in the high band: the update that
\* closed that event left fate alone and cleared the marker.
C28_Witness ==
    /\ call.op = "post_event_update"
    /\ call.old_chapter = 2 /\ player.chapter = 2
    /\ determine_band(player.fate) = "high"
    /\ player.fate = call.old_fate
    /\ ~player._fate_changed_in_event

\* The player on which post_event_update runs apply_chapter_bias is the old one
\* with the step counted and the chapter advanced; the bias reads its chapter,
\* fate, history and marker.  For a direct call it is the old player.
biased(op) == op \in {"apply_chapter_bias", "post_event_update"}

\* C29: in chapter 2 with the marker unset, apply_chapter_bias leaves fate
\* unchanged when fate is in the mid band (34..66) and otherwise moves fate
\* toward 50 by exactly 5 (high band: fate-5, low band: fate+5), never crossing
\* 50; in chapters other than 2 and 3 it changes nothing.
C29_ChapterTwoBias ==
    [][(biased(call'.op) /\ ~player._fate_changed_in_event) =>
          LET chapter == IF call'.op = "post_event_update" THEN player'.chapter
                         ELSE player.chapter
              f == player.fate
          IN  /\ chapter = 2 =>
                    /\ (34 <= f /\ f <= 66) =>
                           /\ player'.fate = f
                           /\ player'.fate_history = player.fate_history
                    /\ f >= 67 => player'.fate = f - 5 /\ player'.fate >= 50
                    /\ f <= 33 => player'.fate = f + 5 /\ player'.fate <= 50
              /\ chapter \notin {2, 3} =>
                    /\ player'.fate = f
                    /\ player'.fate_history = player.fate_history
              /\ (call'.op = "apply_chapter_bias" /\ chapter \notin {2, 3}) => player' = player]_vars

\* A direct call in chapter 2 pulled fate from the low band toward the middle.
C29_Witness ==
    /\ call.op = "apply_chapter_bias"
    /\ player.chapter = 2
    /\ call.old_fate <= 33
    /\ player.fate = call.old_fate + 5
    /\ player.fate_history # <<>> /\ player.fate_history[Len(player.fate_history)] = player.fate

\* C30: in chapter 3 with the marker unset, apply_chapter_bias moves fate by at
\* most 5 toward 75 when the mean of fate_history is >= 55, toward 25 when the
\* mean is <= 45, and toward 50 otherwise, never overshooting the target; when
\* fate_history is empty it changes nothing.
C30_ChapterThreeBias ==
    [][(biased(call'.op) /\ ~player._fate_changed_in_event
            /\ (IF call'.op = "post_event_update" THEN player'.chapter ELSE player.chapter) = 3)
        => LET history == player.fate_history
               f == player.fate
               total == sum(history)
               target == IF total >= 55 * Len(history) THEN 75
                         ELSE IF total <= 45 * Len(history) THEN 25
                         ELSE 50
               distance == IF target >= f THEN target - f ELSE f - target
               step == IF distance > 5 THEN 5 ELSE distance
           IN  IF history = <<>>
               THEN player'.fate = f /\ player'.fate_history = history
               ELSE /\ player'.fate = (IF target >= f THEN f + step ELSE f - step)
                    /\ (f <= target => player'.fate <= target)
                    /\ (f >= target => player'.fate >= target)
                    /\ player'.fate - f <= 5 /\ f - player'.fate <= 5]_vars

\* Fate had been 70 and was back at 50 when chapter 3 opened: the history averaged
\* 60, so the update moved fate up toward 75 although fate itself was in the middle.
C30_Witness ==
    /\ call.op = "post_event_update"
    /\ player.chapter = 3
    /\ call.old_fate = 50
    /\ player.fate = 55
    /\ player.fate_history = <<70, 50, 55>>

\* ------------------------------------------------------------------------
\* Properties of the order of the lock and the ending
\* ------------------------------------------------------------------------
\* C31: no single post_event_update call both locks the path and prepares the
\* ending. A call that returns a lock id leaves ending_prepared as it was, even
\* when chapter is >= 5 at that moment; a call that returns an ending id found the
\* path already locked by an earlier call and returns the ending of the locked band.
C31_LockBeforeEnding ==
    [][call'.op = "post_event_update" =>
        LET locks == ~player.fate_path_locked /\ player'.fate_path_locked
            prepares == ~player.ending_prepared /\ player'.ending_prepared
        IN  /\ ~(locks /\ prepares)
            /\ locks <=> call'.ret \in LockIds
            /\ prepares <=> call'.ret \in EndingIds
            /\ call'.ret \in EndingIds =>
                   /\ player.fate_path_locked
                   /\ player.fate_locked_band \in Bands
                   /\ player'.fate_locked_band = player.fate_locked_band
                   /\ call'.ret = ENDING_EVENTS[player.fate_locked_band]]_vars

\* A result had opened chapter 5 before any lock: the update returned the lock id
\* and left the ending for a later call.
C31_Witness ==
    /\ call.op = "post_event_update"
    /\ call.ret \in LockIds
    /\ call.old_chapter = 5
    /\ player.chapter >= 5
    /\ player.fate_path_locked
    /\ ~player.ending_prepared

\* ------------------------------------------------------------------------
\* Properties of the game loop
\* ------------------------------------------------------------------------
\* C32: outside the ending sequence, applying a result raises steps by 1 when no
\* battle is active afterwards and by 0 when the event is a battle whose battle
\* is still active afterwards; so from its entry to its clearing every event,
\* a battle of any number of turns included, counts as exactly one step.
C32_OneStepPerEvent ==
    [][/\ (call'.op = "apply_result_and_advance" /\ ~player'.ending_active /\ ~game'.crashed)
           => /\ ~is_battle_active(player') => player'.steps = player.steps + 1
              /\ (in_battle_event(game) /\ is_battle_active(player'))
                     => player'.steps = player.steps
       /\ (game'.current_event # None /\ ~player'.ending_active)
           => player'.steps = game'.entry_steps + (IF game'.pending_clear_event THEN 1 ELSE 0)
       /\ (call'.op = "frame" /\ game.current_event # None /\ game'.current_event = None)
           => player'.steps = game.entry_steps + 1]_vars

\* The battle of the ambush took two turns: the first left it active and counted
\* nothing, the second ended it and counted the event's one step.
C32_Witness ==
    /\ call.op = "apply_result_and_advance"
    /\ game.current_event = "ambush"
    /\ player.battle_state.present
    /\ player.battle_state.turn_count = 2
    /\ ~player.battle_state.active
    /\ player.steps = game.entry_steps + 1
    /\ game.pending_clear_event

\* ------------------------------------------------------------------------
\* Properties of the battle states
\* ------------------------------------------------------------------------
\* C33: in every battle state reached from start_battle, while active is true
\* none of victory, escaped, defeat is true; once an action has ended the battle
\* active is false and exactly one of the three is true; and an ended battle
\* becomes active again only through start_battle.
C33_ActiveOrOneTerminal ==
    [][/\ player'.battle_state.present =>
              LET state == player'.battle_state
                  terminal == {flag \in {"victory", "escaped", "defeat"} : state[flag]}
              IN  IF state.active THEN terminal = {} ELSE Cardinality(terminal) = 1
       /\ (player.battle_state.present /\ ~player.battle_state.active
               /\ call'.op # "start_battle")
           => ~is_battle_active(player')]_vars

\* An action taken after the defeat found no active battle and left the ended
\* state as it was.
C33_Witness ==
    /\ call.op = "perform_battle_action"
    /\ ~call.was_active
    /\ player.battle_state.present
    /\ ~player.battle_state.active
    /\ player.battle_state.defeat
    /\ ~player.battle_state.victory /\ ~player.battle_state.escaped

\* ------------------------------------------------------------------------
\* Properties of battle options
\* ------------------------------------------------------------------------
\* The first id of the sequence that is not None, None when there is none.
RECURSIVE first_present(_)
first_present(ids) ==
    IF ids = <<>> THEN None
    ELSE IF Head(ids) # None THEN Head(ids)
    ELSE first_present(Tail(ids))

\* C34: when a battle_action result ends the battle in progress, the id
\* handle_event_result returns is the first present of forced_event,
\* forced_event_on_end and, only if the battle ended without victory or escape,
\* forced_event_on_defeat; when the battle continues neither follow-up is used.
C34_FollowUpPriority ==
    (call.op = "handle_event_result" /\ "battle_action" \in DOMAIN call.result
        /\ call.was_active)
    => LET result == call.result
           forced_event == get(result, "forced_event", None)
           on_end == get(result, "forced_event_on_end", None)
           on_defeat == get(result, "forced_event_on_defeat", None)
       IN  IF ~call.outcome.battle_over THEN call.ret = forced_event
           ELSE IF call.outcome.victory \/ call.outcome.escaped
           THEN call.ret = first_present(<<forced_event, on_end>>)
           ELSE call.ret = first_present(<<forced_event, on_end, on_defeat>>)

\* The battle was lost on an option that declares both follow-ups and no
\* forced_event: the id of forced_event_on_end came back.
C34_Witness ==
    /\ call.op = "handle_event_result"
    /\ call.was_active
    /\ call.outcome.battle_over /\ call.outcome.defeat
    /\ "forced_event" \notin DOMAIN call.result
    /\ "forced_event_on_end" \in DOMAIN call.result
    /\ "forced_event_on_defeat" \in DOMAIN call.result
    /\ call.ret = call.result.forced_event_on_end

\* C35: handling a battle_action applies exactly the outcome effect that matches
\* the flag the resolver reports (victory, escaped or defeat) when the battle
\* concluded this turn and none otherwise; defeat_effect and
\* forced_event_on_defeat are used only when the resolver reports defeat, not
\* when no battle was active.
C35_EffectMatchesOutcome ==
    (call.op = "handle_event_result" /\ "battle_action" \in DOMAIN call.result)
    => LET outcome == call.outcome
           victory == get(outcome, "victory", FALSE)
           escaped == get(outcome, "escaped", FALSE)
           defeat == get(outcome, "defeat", FALSE)
           effect == IF victory THEN get(call.result, "victory_effect", <<>>)
                     ELSE IF escaped THEN get(call.result, "escape_effect", <<>>)
                     ELSE IF defeat THEN get(call.result, "defeat_effect", <<>>)
                     ELSE <<>>
       IN  /\ player.hp = _apply_effects([hp |-> call.old_hp], effect).hp
           /\ (call.ret # None /\ call.ret = get(call.result, "forced_event_on_defeat", None))
                  => defeat

\* ------------------------------------------------------------------------
\* Properties of the length of a battle
\* ------------------------------------------------------------------------
\* C36: every call of perform_battle_action on a battle in progress either ends
\* the battle or lowers durability by exactly 1, so whatever the actions and the
\* draws the battle is over after at most max_durability calls.
C36_OverWithinMaxDurability ==
    [][(call'.op = "perform_battle_action" /\ call'.was_active)
        => LET before == player.battle_state
               after == player'.battle_state
           IN  /\ after.turn_count = before.turn_count + 1
               /\ after.max_durability = before.max_durability
               /\ after.active => /\ after.durability = before.durability - 1
                                   /\ after.durability >= 1
                                   /\ after.durability + after.turn_count = after.max_durability
               /\ after.turn_count <= after.max_durability]_vars

\* A battle that could bear four failures was lost by hesitating four times.
C36_Witness ==
    /\ call.op = "perform_battle_action"
    /\ call.was_active
    /\ call.action = "wait"
    /\ ~player.battle_state.active
    /\ player.battle_state.defeat
    /\ player.battle_state.max_durability = MaxDurability
    /\ player.battle_state.turn_count = MaxDurability

\* ------------------------------------------------------------------------
\* Properties of the items a result grants
\* ------------------------------------------------------------------------
\* The items of inventory_add in the result the last applied option carried.
granted ==
    IF call.op = "apply_result_and_advance"
    THEN {call.result.inventory_add[i] : i \in 1..Len(get(call.result, "inventory_add", <<>>))}
    ELSE {}

\* C37: every item named in inventory_add of a handled result is eventually in
\* the inventory as long as update_typewriter keeps being called, also when the
\* game is saved and reloaded while the item's log entry waits behind a
\* typewriter entry.
C37_GrantedItemsArrive ==
    \A item \in {"amulet"} : (item \in granted) ~> contains(player.inventory, item)

\* ------------------------------------------------------------------------
\* Properties of a battle carried over a save
\* ------------------------------------------------------------------------
\* C38: a battle in progress survives the save of a frame and the load that
\* follows: battle_state still holds the enemy record with its name, and an
\* attack that succeeds returns victory instead of raising an error.
C38_BattleSurvivesLoad ==
    /\ is_battle_active(player) => "name" \in DOMAIN player.battle_state.enemy
    /\ (call.op = "apply_result_and_advance" /\ call.was_active
            /\ get(call.result, "battle_action", None) = "attack")
        => /\ "raised" \notin DOMAIN call.outcome
           /\ (call.outcome.battle_over /\ ~call.outcome.defeat) => call.outcome.victory

\* ------------------------------------------------------------------------
\* Properties of the log queue
\* ------------------------------------------------------------------------

\* the entries of a queue as log_history would hold them
as_history(entries) ==
    [i \in 1..Len(entries) |-> [text |-> entries[i].text, category |-> entries[i].category]]

\* log_history followed by the entries still waiting, in the order of the queue
shown_then_waiting(log) ==
    log.log_history \o as_history(log._active_entry) \o as_history(log._pending_entries)

\* C39: whatever the interleaving of add, update_typewriter,
\* set_typewriter_enabled and set_typewriter_override, log_history is the lines
\* added so far in the order they were added, less the lines still waiting,
\* which are the latest ones: no line is shown before an earlier one, none is
\* dropped and none is duplicated.
C39_HistoryInAddedOrder ==
    LET lines == shown_then_waiting(text_log)
    IN  /\ Len(lines) = n_calls
        /\ \A i \in 1..Len(lines) : lines[i].text.line = i

C39_Witness ==
    /\ Len(text_log.log_history) >= 2
    /\ text_log._active_entry # <<>>
    /\ text_log._pending_entries # <<>>
    /\ \E i \in 1..Len(text_log.log_history) : text_log.log_history[i].category = "narration"

\* the lines of log_history that carried a callback of this kind
RECURSIVE shown_with(_, _)
shown_with(history, kind) ==
    IF history = <<>> THEN <<>>
    ELSE (IF Head(history).text.on_show = kind THEN <<Head(history).text.line>> ELSE <<>>)
         \o shown_with(Tail(history), kind)

\* C40: the callbacks that have run are those of the entries in log_history,
\* once each and in the order of log_history: none has run twice and none for
\* an entry still active or pending.  Entries whose callback raises are in
\* log_history like the others, and an update with the typewriter off leaves
\* nothing waiting behind them.
C40_CallbackOnceOnAppend ==
    /\ player.inventory = shown_with(text_log.log_history, "append")
    /\ (call.op = "update_typewriter" /\ ~_effective_typewriter_enabled(text_log))
           => text_log._active_entry = <<>> /\ text_log._pending_entries = <<>>

C40_Witness ==
    /\ \E i, j \in 1..Len(text_log.log_history) :
           /\ i < j
           /\ text_log.log_history[i].text.on_show = "raise"
           /\ text_log.log_history[j].text.on_show = "append"
           /\ contains(player.inventory, j)
    /\ \E i \in 1..Len(text_log._pending_entries) :
           text_log._pending_entries[i].on_show.kind = "append"

====
